---- MODULE Spec2Model ----
(***************************************************************************)
(* Model of port-channel.py: the Nexus vPC port-channel builder.           *)
(*                                                                         *)
(* Text that the program parses (VLAN cells, MTU cells) is a sequence of   *)
(* one-character strings, so that splitting, isdigit() and int() are       *)
(* computed as the code computes them.  Names that the program only        *)
(* compares and sorts (devices, groups, ports, keys) are TLA+ strings,     *)
(* ordered by the table Lex.                                               *)
(***************************************************************************)
EXTENDS Integers, Sequences, FiniteSets, TLC

VARIABLES
    df,          \* the intent table returned by load_plan (sequence of rows)
    id_min,      \* args.id_min
    id_max,      \* args.id_max
    dry_run,     \* args.dry_run
    device,      \* what each switch answers to the show commands
    pool,        \* ConnPool.pool: the devices with an open session
    closed,      \* the devices whose session was disconnected
    pc,          \* position of main()
    todo,        \* the loop main() is in: what is left to iterate
    grp,         \* the loop variables of the group loop: grp, peers, used
    cur,         \* the composed bundle / row that is being submitted
    out,         \* what the run printed, in order
    sent,        \* every run_cfg call of the run, in order
    hist,        \* history: gate facts, allocations and plans of the run
    preview,     \* history: the plans of the preview run that came before
    exc,         \* the exception that left main(), "" when none was raised
    a_in,        \* pick_next_id under test: its arguments
    a_res        \* pick_next_id under test: its result

vars == <<df, id_min, id_max, dry_run, device, pool, closed, pc, todo, grp,
          cur, out, sent, hist, preview, exc, a_in, a_res>>

-----------------------------------------------------------------------------
(* Sequences and sets                                                       *)

Range(s) == {s[i] : i \in 1..Len(s)}

RECURSIVE SetToSortedSeq(_)
SetToSortedSeq(S) ==
    IF S = {} THEN <<>>
    ELSE LET m == CHOOSE x \in S : \A y \in S : x <= y
         IN  <<m>> \o SetToSortedSeq(S \ {m})

\* the indices 1..n in ascending order
Indices(n) == [i \in 1..n |-> i]

-----------------------------------------------------------------------------
(* Python str methods on character sequences                                *)

Digits == {"0", "1", "2", "3", "4", "5", "6", "7", "8", "9"}

DigitVal(c) ==
    CASE c = "0" -> 0 [] c = "1" -> 1 [] c = "2" -> 2 [] c = "3" -> 3
      [] c = "4" -> 4 [] c = "5" -> 5 [] c = "6" -> 6 [] c = "7" -> 7
      [] c = "8" -> 8 [] c = "9" -> 9

isdigit(s) == Len(s) > 0 /\ \A i \in 1..Len(s) : s[i] \in Digits

RECURSIVE int(_)
int(s) == IF Len(s) = 0 THEN 0
          ELSE 10 * int(SubSeq(s, 1, Len(s) - 1)) + DigitVal(s[Len(s)])

\* s.split(sep): the pieces between the occurrences of the character sep
RECURSIVE split(_, _)
split(s, sep) ==
    IF \A i \in 1..Len(s) : s[i] # sep THEN <<s>>
    ELSE LET k == CHOOSE i \in 1..Len(s) :
                      s[i] = sep /\ \A j \in 1..(i - 1) : s[j] # sep
         IN  <<SubSeq(s, 1, k - 1)>> \o split(SubSeq(s, k + 1, Len(s)), sep)

\* s.split(sep, 1): at the first occurrence only
split1(s, sep) ==
    IF \A i \in 1..Len(s) : s[i] # sep THEN <<s>>
    ELSE LET k == CHOOSE i \in 1..Len(s) :
                      s[i] = sep /\ \A j \in 1..(i - 1) : s[j] # sep
         IN  <<SubSeq(s, 1, k - 1), SubSeq(s, k + 1, Len(s))>>

\* re.findall(r"\d{1,4}", s): greedy runs of at most four digits
RECURSIVE findall_d14(_)
findall_d14(s) ==
    IF Len(s) = 0 THEN <<>>
    ELSE IF s[1] \notin Digits THEN findall_d14(Tail(s))
    ELSE LET n == CHOOSE k \in 1..4 :
                      /\ k <= Len(s)
                      /\ \A j \in 1..k : s[j] \in Digits
                      /\ (k = 4 \/ k = Len(s) \/ s[k + 1] \notin Digits)
         IN  <<SubSeq(s, 1, n)>> \o findall_d14(SubSeq(s, n + 1, Len(s)))

-----------------------------------------------------------------------------
(* normalize_separators, parse_vlan_list                                    *)

VLAN_MIN == 1
VLAN_MAX == 4094

SepChars == {";", "/", "|", " "}

RECURSIVE CollapseCommas(_)
CollapseCommas(s) ==
    IF Len(s) < 2 THEN s
    ELSE IF s[1] = "," /\ s[2] = "," THEN CollapseCommas(Tail(s))
    ELSE <<s[1]>> \o CollapseCommas(Tail(s))

StripCommas(s) ==
    LET a == IF Len(s) > 0 /\ s[1] = "," THEN Tail(s) ELSE s
    IN  IF Len(a) > 0 /\ a[Len(a)] = "," THEN SubSeq(a, 1, Len(a) - 1) ELSE a

normalize_separators(s) ==
    StripCommas(CollapseCommas(
        [i \in 1..Len(s) |-> IF s[i] \in SepChars THEN "," ELSE s[i]]))

InVlanRange(v) == VLAN_MIN <= v /\ v <= VLAN_MAX

\* the VLAN ids one comma-separated part contributes
PartVlans(part) ==
    IF part = <<>> THEN {}
    ELSE IF "-" \in Range(part)
    THEN LET ab == split1(part, "-")
         IN  IF isdigit(ab[1]) /\ isdigit(ab[2])
                /\ InVlanRange(int(ab[1])) /\ InVlanRange(int(ab[2]))
                /\ int(ab[1]) <= int(ab[2])
             THEN int(ab[1])..int(ab[2]) ELSE {}
    ELSE IF isdigit(part) /\ InVlanRange(int(part)) THEN {int(part)}
    ELSE {}

parse_vlan_list(cell) ==
    LET s == normalize_separators(cell)
    IN  IF s = <<>> THEN <<>>
        ELSE IF "," \notin Range(s) /\ "-" \notin Range(s) /\ Len(s) > 4
        THEN SetToSortedSeq({x \in {int(t) : t \in Range(findall_d14(s))} :
                                InVlanRange(x)})
        ELSE SetToSortedSeq(UNION {PartVlans(p) : p \in Range(split(s, ","))})

-----------------------------------------------------------------------------
(* pick_next_id                                                             *)

\* the loop of pick_next_id from i on; err stands for the RuntimeError
RECURSIVE pick_from(_, _, _)
pick_from(used, i, hi) ==
    IF i > hi THEN [err |-> TRUE, id |-> 0]
    ELSE IF i \notin used THEN [err |-> FALSE, id |-> i]
    ELSE pick_from(used, i + 1, hi)

\* pick_next_id with range(lo, hi): the last id of the range is never tried
pick_next_id_short(used, lo, hi) == pick_from(used, lo, hi - 1)

pick_next_id(used, lo, hi) == pick_from(used, lo, hi)

-----------------------------------------------------------------------------
(* Names: Python's order on the strings the model uses                      *)

Lex == << "", "E1/9", "Eth1/1", "Eth1/10", "Eth1/2", "Eth1/3", "Eth1/4",
          "Eth1/5", "Eth1/6", "Eth1/7", "Eth1/8", "Ethernet1/1",
          "Ethernet1/10", "Ethernet1/2", "Ethernet1/3", "Ethernet1/4",
          "Ethernet1/5", "Ethernet1/6", "Ethernet1/7", "Ethernet1/8",
          "SW-A", "SW-B", "SW-C", "Trunk", "access",
          "eth0", "eth1", "g1", "g2", "g3", "k1", "k2", "no", "routed",
          "srv1", "srv2", "srv3", "srv4", "srv5", "trunk", "yes" >>

\* the position of every name in Lex
RankOf == [s \in {Lex[i] : i \in 1..Len(Lex)} |->
              CHOOSE i \in 1..Len(Lex) : Lex[i] = s]

Rank(s) == RankOf[s]

StrLess(a, b) == Rank(a) < Rank(b)

\* ord() of the characters that occur in the cells
CharCode(c) ==
    CASE c = " " -> 32 [] c = "," -> 44 [] c = "-" -> 45 [] c = "/" -> 47
      [] c \in Digits -> 48 + DigitVal(c)
      [] c = ";" -> 59 [] c = "a" -> 97 [] c = "b" -> 98 [] c = "c" -> 99
      [] c = "x" -> 120 [] c = "|" -> 124

\* s < t for character sequences
RECURSIVE TextLess(_, _)
TextLess(s, t) ==
    IF t = <<>> THEN FALSE
    ELSE IF s = <<>> THEN TRUE
    ELSE IF s[1] # t[1] THEN CharCode(s[1]) < CharCode(t[1])
    ELSE TextLess(Tail(s), Tail(t))

\* str.lower() on the names of the model
lower(s) == IF s = "Trunk" THEN "trunk" ELSE s

\* sorted(s, key=...): ascending by Less, equal elements keep their order
sorted(s, Less(_, _)) ==
    LET pos(i) == 1 + Cardinality({j \in 1..Len(s) :
                        \/ Less(s[j], s[i])
                        \/ (~Less(s[i], s[j]) /\ j < i)})
    IN  [k \in 1..Len(s) |-> s[CHOOSE i \in 1..Len(s) : pos(i) = k]]

\* sorted(set(...)) of names
RECURSIVE SortNames(_)
SortNames(S) ==
    IF S = {} THEN <<>>
    ELSE LET m == CHOOSE x \in S : \A y \in S : Rank(x) <= Rank(y)
         IN  <<m>> \o SortNames(S \ {m})

-----------------------------------------------------------------------------
(* to_eth_canonical, norm_iface_for_match                                   *)

\* the port names that match (?i)^(?:eth|ethernet)(\d+/\d+)$, with group 1
EthForms ==
    { <<"Eth1/1", "1/1">>, <<"Eth1/2", "1/2">>, <<"Eth1/3", "1/3">>,
      <<"Eth1/4", "1/4">>, <<"Eth1/5", "1/5">>, <<"Eth1/6", "1/6">>,
      <<"Eth1/7", "1/7">>, <<"Eth1/8", "1/8">>, <<"Eth1/10", "1/10">>,
      <<"Ethernet1/1", "1/1">>, <<"Ethernet1/2", "1/2">>,
      <<"Ethernet1/3", "1/3">>, <<"Ethernet1/4", "1/4">>,
      <<"Ethernet1/5", "1/5">>, <<"Ethernet1/6", "1/6">>,
      <<"Ethernet1/7", "1/7">>, <<"Ethernet1/8", "1/8">>,
      <<"Ethernet1/10", "1/10">> }

\* f"Ethernet{m.group(1)}"
Ethernet(num) ==
    CASE num = "1/1" -> "Ethernet1/1" [] num = "1/2" -> "Ethernet1/2"
      [] num = "1/3" -> "Ethernet1/3" [] num = "1/4" -> "Ethernet1/4"
      [] num = "1/5" -> "Ethernet1/5" [] num = "1/6" -> "Ethernet1/6"
      [] num = "1/7" -> "Ethernet1/7" [] num = "1/8" -> "Ethernet1/8"
      [] num = "1/10" -> "Ethernet1/10"

\* to_eth_canonical of every name of the model
Canonical ==
    [s \in {Lex[i] : i \in 1..Len(Lex)} |->
        IF \E f \in EthForms : f[1] = s
        THEN Ethernet((CHOOSE f \in EthForms : f[1] = s)[2])
        ELSE s]

to_eth_canonical(s) == Canonical[s]

-----------------------------------------------------------------------------
(* The intent table: rows as load_plan returns them                         *)

Row(src, sport, sw, allowed, native, dev, port, mtu, req, g, lag) ==
    [source_device |-> src, source_port |-> sport, switchport_type |-> sw,
     allowed_vlan |-> allowed, native_vlan |-> native,
     destination_device |-> dev, destination_port |-> port,
     mtu_value |-> mtu, pc_required |-> req, vpc_group |-> g, lag_key |-> lag]

T_10    == <<"1", "0">>
T_20    == <<"2", "0">>
T_10_20 == <<"1", "0", ",", "2", "0">>
T_10_30 == <<"1", "0", ",", "3", "0">>
T_x     == <<"x">>
T_none  == <<>>
M_9216  == <<"9", "2", "1", "6">>
M_1500  == <<"1", "5", "0", "0">>
M_abc   == <<"a", "b", "c">>
M_0     == <<"0">>

\* The rows come in units: a pair of rows for the two peers, or one row.
Units == <<
    \* 1: trunk bundle of group g1 on SW-A / SW-B
    << Row("srv1", "eth0", "trunk", T_10_20, T_10, "SW-A", "Eth1/1", M_9216, "yes", "g1", ""),
       Row("srv1", "eth1", "trunk", T_10_20, T_10, "SW-B", "Eth1/2", M_9216, "yes", "g1", "") >>,
    \* 2: access bundle of group g2 on the same two devices
    << Row("srv2", "eth0", "access", T_10, T_none, "SW-A", "Eth1/3", M_1500, "yes", "g2", ""),
       Row("srv2", "eth1", "access", T_10, T_none, "SW-B", "Eth1/4", M_1500, "yes", "g2", "") >>,
    \* 3: trunk bundle of g1 without a native VLAN
    << Row("srv3", "eth0", "Trunk", T_20, T_none, "SW-A", "Ethernet1/5", M_9216, "yes", "g1", ""),
       Row("srv3", "eth1", "trunk", T_20, T_none, "SW-B", "Eth1/6", M_9216, "yes", "g1", "") >>,
    \* 4: single trunk interface without a native VLAN
    << Row("srv4", "eth0", "trunk", T_10_20, T_none, "SW-A", "Eth1/7", M_9216, "no", "", "") >>,
    \* 5: single access interface
    << Row("srv4", "eth1", "access", T_10, T_none, "SW-B", "Eth1/8", M_1500, "no", "", "") >>,
    \* 6: rows of g2 paired by lag_key, with different attributes
    << Row("srv5", "eth0", "trunk", T_10_20, T_10, "SW-A", "Eth1/10", M_9216, "yes", "g2", "k1"),
       Row("srv5", "eth1", "access", T_10, T_none, "SW-B", "Eth1/10", M_1500, "yes", "g2", "k1") >>,
    \* 7: a channel row without a group label
    << Row("srv1", "eth0", "access", T_10, T_none, "SW-A", "E1/9", M_1500, "yes", "", "") >>,
    \* 8: a row of g1 on a third device
    << Row("srv1", "eth0", "trunk", T_10_20, T_10, "SW-C", "Eth1/1", M_9216, "yes", "g1", "") >>,
    \* 9: bundle of g2 whose MTU is no number
    << Row("srv2", "eth0", "access", T_10, T_none, "SW-A", "Eth1/4", M_abc, "yes", "g2", ""),
       Row("srv2", "eth1", "access", T_10, T_none, "SW-B", "Eth1/3", M_abc, "yes", "g2", "") >>,
    \* 10: bundle of g1 with an unknown switchport type
    << Row("srv4", "eth0", "routed", T_10, T_none, "SW-A", "Eth1/2", M_1500, "yes", "g1", ""),
       Row("srv4", "eth1", "routed", T_10, T_none, "SW-B", "Eth1/1", M_1500, "yes", "g1", "") >>,
    \* 11: access bundle of g1 whose VLAN cell holds no VLAN id
    << Row("srv2", "eth0", "access", T_x, T_none, "SW-A", "Eth1/6", M_1500, "yes", "g1", ""),
       Row("srv2", "eth1", "access", T_x, T_none, "SW-B", "Ethernet1/5", M_1500, "yes", "g1", "") >>,
    \* 12: two rows of g2 that do not match each other
    << Row("srv3", "eth0", "access", T_20, T_none, "SW-A", "Eth1/8", M_1500, "yes", "g2", ""),
       Row("srv3", "eth1", "access", T_10, T_none, "SW-B", "Eth1/5", M_1500, "yes", "g2", "") >>,
    \* 13: single trunk interface that needs VLAN 30
    << Row("srv5", "eth0", "trunk", T_10_30, T_10, "SW-B", "Eth1/7", M_9216, "no", "", "") >>,
    \* 14: a second bundle of g1 with the attributes of unit 1
    << Row("srv1", "eth0", "trunk", T_10_20, T_10, "SW-A", "Eth1/10", M_9216, "yes", "g1", ""),
       Row("srv1", "eth1", "trunk", T_10_20, T_10, "SW-B", "Eth1/10", M_9216, "yes", "g1", "") >>,
    \* 15: single interfaces with a bad MTU and an unknown switchport type
    << Row("srv5", "eth0", "access", T_10, T_none, "SW-A", "Eth1/2", M_abc, "no", "", ""),
       Row("srv5", "eth1", "routed", T_10, T_none, "SW-A", "Eth1/4", M_1500, "no", "g3", "") >>,
    \* 16: single interfaces: a trunk whose allowed cell holds no VLAN id, and
    \* an access interface with MTU 0
    << Row("srv3", "eth0", "trunk", T_x, T_none, "SW-A", "Eth1/6", M_9216, "no", "", ""),
       Row("srv3", "eth1", "access", T_10, T_none, "SW-B", "Eth1/5", M_0, "no", "", "") >>
>>

\* how many units a table is made of, at most
MaxUnits == 2

RECURSIVE Flatten(_, _)
\* the rows of the units chosen in U, in the order of Units
Flatten(U, i) ==
    IF i > Len(Units) THEN <<>>
    ELSE (IF i \in U THEN Units[i] ELSE <<>>) \o Flatten(U, i + 1)

Tables ==
    {Flatten(U, 1) : U \in {V \in SUBSET (1..Len(Units)) :
                              Cardinality(V) \in 1..MaxUnits}}

Devices == {"SW-A", "SW-B", "SW-C"}

\* the VLAN cells of the tables, and parse_vlan_list of each of them
VlanCells ==
    UNION {UNION {{Units[u][i].allowed_vlan, Units[u][i].native_vlan} :
                     i \in 1..Len(Units[u])} : u \in 1..Len(Units)}

VlanList == [cell \in VlanCells |-> parse_vlan_list(cell)]

-----------------------------------------------------------------------------
(* The switches: what the show commands report                              *)

\* the largest --id-max a run is started with
MaxId == 3

ID_MIN_DEFAULT == 1

\* a healthy, unconfigured switch
BaseDevice ==
    [vlans_json   |-> {1, 10, 20},   \* show vlan brief | json
     vlans_text   |-> {1, 10, 20},   \* show vlan brief
     po           |-> {},            \* PoN of show port-channel summary
     vpc_brief    |-> {},            \* ids of show vpc brief
     vpc_show     |-> {},            \* ids of the vPC-id table of show vpc
     domain       |-> <<"5">>,       \* vPC domain id of show vpc
     peer_ok      |-> TRUE,          \* "peer adjacency formed ok"
     keepalive_ok |-> TRUE,          \* "keep-alive status : peer is alive"
     cg           |-> {},            \* interfaces with channel-group configured
     summ         |-> {},            \* interfaces listed in the summary
     up           |-> {},            \* interfaces whose status is connected
     fail         |-> {}]            \* the commands that raise on this switch

IfaceOf(r) == to_eth_canonical(r.destination_port)

\* the interfaces of device d that table t names
IfacesOn(t, d) ==
    {IfaceOf(t[i]) : i \in {j \in 1..Len(t) : t[j].destination_device = d}}

AllBase == [d \in Devices |-> BaseDevice]

Env(dv, lo, hi) == [device |-> dv, id_min |-> lo, id_max |-> hi]

\* The environments a run starts in: the healthy one, and one deviation of it.
Envs(t) ==
    LET first == t[1]
        last  == t[Len(t)]
        fd    == first.destination_device
        ld    == last.destination_device
        std(dv) == Env(dv, ID_MIN_DEFAULT, MaxId)
    IN  { std(AllBase),
          std([AllBase EXCEPT !["SW-B"].vlans_json = {1, 10},
                              !["SW-B"].vlans_text = {1, 10}]),
          std([AllBase EXCEPT !["SW-A"].vlans_json = {}]),
          std([AllBase EXCEPT !["SW-B"].domain = <<"6">>]),
          std([d \in Devices |-> [BaseDevice EXCEPT !.domain = <<>>]]),
          std([AllBase EXCEPT !["SW-A"].peer_ok = FALSE]),
          std([AllBase EXCEPT !["SW-B"].keepalive_ok = FALSE]),
          std([AllBase EXCEPT !["SW-A"].po = {1}]),
          std([AllBase EXCEPT !["SW-B"].vpc_brief = {1}]),
          std([AllBase EXCEPT !["SW-A"].vpc_show = {1}]),
          std([AllBase EXCEPT !["SW-B"].po = {2}, !["SW-B"].vpc_show = {1}]),
          std([AllBase EXCEPT ![fd].cg = {IfaceOf(first)}]),
          std([AllBase EXCEPT ![ld].summ = {IfaceOf(last)}]),
          std([AllBase EXCEPT ![fd].up = {IfaceOf(first)}]),
          std([AllBase EXCEPT ![ld].up = {IfaceOf(last)}]),
          std([d \in Devices |->
                  [BaseDevice EXCEPT !.cg = IfacesOn(t, d),
                                     !.summ = IfacesOn(t, d),
                                     !.up = IfacesOn(t, d)]]),
          Env(AllBase, MaxId, MaxId),
          Env([AllBase EXCEPT !["SW-A"].po = {MaxId}], MaxId, MaxId),
          Env(AllBase, MaxId, MaxId - 1),
          std([AllBase EXCEPT !["SW-B"].fail = {"connect"}]),
          std([AllBase EXCEPT !["SW-A"].fail = {"show vlan brief"}]),
          std([AllBase EXCEPT !["SW-B"].fail = {"show vpc"}]),
          std([AllBase EXCEPT ![ld].fail = {"show interface status"}]),
          std([AllBase EXCEPT !["SW-B"].fail = {"config"}]) }

\* the session of device d raises on command cmd (timeout, lost transport)
Raises(d, cmd) == cmd \in device[d].fail

\* get_existing_vlans: the JSON form, and the text table when it gives nothing
get_existing_vlans(d) ==
    IF device[d].vlans_json # {} THEN device[d].vlans_json
    ELSE device[d].vlans_text

get_used_portchannels(d) == device[d].po

get_used_vpc_ids_brief(d) == device[d].vpc_brief

get_used_vpc_ids_show_vpc(d) == device[d].vpc_show

parse_vpc_facts(d) ==
    [domain       |-> device[d].domain,
     peer_ok      |-> IF device[d].peer_ok THEN "yes" ELSE "no",
     keepalive_ok |-> IF device[d].keepalive_ok THEN "yes" ELSE "no"]

\* vpc_healthy without the keepalive test of the second peer
vpc_healthy_one_keepalive(nx1, nx2) ==
    LET f1 == parse_vpc_facts(nx1)
        f2 == parse_vpc_facts(nx2)
    IN  /\ f1.domain # <<>> /\ f2.domain # <<>> /\ f1.domain = f2.domain
        /\ f1.peer_ok = "yes" /\ f2.peer_ok = "yes"
        /\ f1.keepalive_ok = "yes"

vpc_healthy(nx1, nx2) ==
    LET f1 == parse_vpc_facts(nx1)
        f2 == parse_vpc_facts(nx2)
    IN  /\ f1.domain # <<>> /\ f2.domain # <<>> /\ f1.domain = f2.domain
        /\ f1.peer_ok = "yes" /\ f2.peer_ok = "yes"
        /\ f1.keepalive_ok = "yes" /\ f2.keepalive_ok = "yes"

interface_is_in_pc(n, iface) ==
    \/ to_eth_canonical(iface) \in device[n].cg
    \/ to_eth_canonical(iface) \in device[n].summ

interface_link_up(n, iface) == to_eth_canonical(iface) \in device[n].up

\* used ids without the vPC-id table of the second peer
used_ids_no_show2(nx1, nx2) ==
    get_used_portchannels(nx1) \cup get_used_portchannels(nx2)
    \cup get_used_vpc_ids_brief(nx1) \cup get_used_vpc_ids_brief(nx2)
    \cup get_used_vpc_ids_show_vpc(nx1)

\* the used ids main() collects for a group: the union of the six queries
used_ids(nx1, nx2) ==
    get_used_portchannels(nx1) \cup get_used_portchannels(nx2)
    \cup get_used_vpc_ids_brief(nx1) \cup get_used_vpc_ids_brief(nx2)
    \cup get_used_vpc_ids_show_vpc(nx1) \cup get_used_vpc_ids_show_vpc(nx2)

-----------------------------------------------------------------------------
(* required_vlans_per_device                                                *)

\* RowNeed that takes only the first allowed VLAN of a trunk row
RowNeed_first_only(r) ==
    LET st == lower(r.switchport_type)
        lst == VlanList[r.allowed_vlan]
    IN  IF st \in {"access", "trunk"} /\ lst # <<>> THEN {lst[1]} ELSE {}

\* what one row adds to the need of its destination device
RowNeed(r) ==
    LET st == lower(r.switchport_type)
        lst == VlanList[r.allowed_vlan]
        nv  == VlanList[r.native_vlan]
    IN  IF st = "access" THEN (IF lst # <<>> THEN {lst[1]} ELSE {})
        ELSE IF st = "trunk"
        THEN Range(lst) \cup (IF nv # <<>> THEN {nv[1]} ELSE {})
        ELSE {}

required_vlans_per_device(t) ==
    [d \in {t[i].destination_device : i \in 1..Len(t)} |->
        UNION {RowNeed(t[i]) : i \in {j \in 1..Len(t) :
                                        t[j].destination_device = d}}]

\* the VLANs of need that device dev does not have, as main() computes miss
MissingOn(dev, need) == {v \in need : v \notin get_existing_vlans(dev)}

-----------------------------------------------------------------------------
(* Builders: a statement is its keyword, its text and its numbers           *)

Stmt(k, a, v) == [k |-> k, a |-> a, v |-> v]

build_access_physical(desc, vlan, mtu, pc_id) ==
    << Stmt("description", desc, <<>>), Stmt("switchport", <<>>, <<>>),
       Stmt("switchport host", <<>>, <<>>),
       Stmt("switchport access vlan", <<>>, <<vlan>>),
       Stmt("mtu", mtu, <<>>),
       Stmt("channel-group mode active", <<>>, <<pc_id>>),
       Stmt("no shutdown", <<>>, <<>>) >>

build_access_physical_no_pc(desc, vlan, mtu) ==
    << Stmt("description", desc, <<>>), Stmt("switchport", <<>>, <<>>),
       Stmt("switchport host", <<>>, <<>>),
       Stmt("switchport access vlan", <<>>, <<vlan>>),
       Stmt("mtu", mtu, <<>>), Stmt("no shutdown", <<>>, <<>>) >>

build_access_po(desc_po, vlan, mtu, pc_id) ==
    << Stmt("description", desc_po, <<>>), Stmt("switchport", <<>>, <<>>),
       Stmt("switchport access vlan", <<>>, <<vlan>>),
       Stmt("mtu", mtu, <<>>),
       Stmt("spanning-tree port type edge", <<>>, <<>>),
       Stmt("vpc", <<>>, <<pc_id>>), Stmt("no shutdown", <<>>, <<>>) >>

build_trunk_physical(desc, allowed, native, mtu, pc_id) ==
    << Stmt("description", desc, <<>>), Stmt("switchport", <<>>, <<>>),
       Stmt("switchport mode trunk", <<>>, <<>>),
       Stmt("switchport trunk native vlan", <<>>, <<native>>),
       Stmt("switchport trunk allowed vlan", <<>>, allowed),
       Stmt("spanning-tree port type edge trunk", <<>>, <<>>),
       Stmt("mtu", mtu, <<>>),
       Stmt("channel-group mode active", <<>>, <<pc_id>>),
       Stmt("no shutdown", <<>>, <<>>) >>

\* build_trunk_physical_no_pc that joins the interface to channel 1
build_trunk_physical_no_pc_member(desc, allowed, native, mtu) ==
    << Stmt("description", desc, <<>>), Stmt("switchport", <<>>, <<>>),
       Stmt("switchport mode trunk", <<>>, <<>>),
       Stmt("switchport trunk native vlan", <<>>, <<native>>),
       Stmt("switchport trunk allowed vlan", <<>>, allowed),
       Stmt("spanning-tree port type edge trunk", <<>>, <<>>),
       Stmt("mtu", mtu, <<>>),
       Stmt("channel-group mode active", <<>>, <<1>>),
       Stmt("no shutdown", <<>>, <<>>) >>

build_trunk_physical_no_pc(desc, allowed, native, mtu) ==
    << Stmt("description", desc, <<>>), Stmt("switchport", <<>>, <<>>),
       Stmt("switchport mode trunk", <<>>, <<>>),
       Stmt("switchport trunk native vlan", <<>>, <<native>>),
       Stmt("switchport trunk allowed vlan", <<>>, allowed),
       Stmt("spanning-tree port type edge trunk", <<>>, <<>>),
       Stmt("mtu", mtu, <<>>), Stmt("no shutdown", <<>>, <<>>) >>

\* build_trunk_po whose vpc line takes the native VLAN for the id
build_trunk_po_vpc_native(desc_po, allowed, native, mtu, pc_id) ==
    << Stmt("description", desc_po, <<>>), Stmt("switchport", <<>>, <<>>),
       Stmt("switchport mode trunk", <<>>, <<>>),
       Stmt("switchport trunk native vlan", <<>>, <<native>>),
       Stmt("switchport trunk allowed vlan", <<>>, allowed),
       Stmt("spanning-tree port type edge trunk", <<>>, <<>>),
       Stmt("mtu", mtu, <<>>), Stmt("vpc", <<>>, <<native>>),
       Stmt("no shutdown", <<>>, <<>>) >>

build_trunk_po(desc_po, allowed, native, mtu, pc_id) ==
    << Stmt("description", desc_po, <<>>), Stmt("switchport", <<>>, <<>>),
       Stmt("switchport mode trunk", <<>>, <<>>),
       Stmt("switchport trunk native vlan", <<>>, <<native>>),
       Stmt("switchport trunk allowed vlan", <<>>, allowed),
       Stmt("spanning-tree port type edge trunk", <<>>, <<>>),
       Stmt("mtu", mtu, <<>>), Stmt("vpc", <<>>, <<pc_id>>),
       Stmt("no shutdown", <<>>, <<>>) >>

\* the native VLAN main() passes to the trunk builders
native_vlan_of(native) ==
    LET nv == VlanList[native] IN IF nv # <<>> THEN nv[1] ELSE 1

\* the statements of lines with keyword k
StmtsOf(lines, k) == SelectSeq(lines, LAMBDA st : st.k = k)

-----------------------------------------------------------------------------
(* Pairing: _auto_bundle_key, pair_rows_one_per_peer                        *)

auto_bundle_key(row) ==
    << lower(row.source_device), lower(row.switchport_type),
       normalize_separators(row.allowed_vlan),
       normalize_separators(row.native_vlan), row.mtu_value >>

\* k1 < k2 for the tuples of auto_bundle_key
KeyLess(k1, k2) ==
    IF k1[1] # k2[1] THEN StrLess(k1[1], k2[1])
    ELSE IF k1[2] # k2[2] THEN StrLess(k1[2], k2[2])
    ELSE IF k1[3] # k2[3] THEN TextLess(k1[3], k2[3])
    ELSE IF k1[4] # k2[4] THEN TextLess(k1[4], k2[4])
    ELSE TextLess(k1[5], k2[5])

RECURSIVE SeqOfSet(_)
SeqOfSet(S) ==
    IF S = {} THEN <<>>
    ELSE LET x == CHOOSE y \in S : TRUE IN <<x>> \o SeqOfSet(S \ {x})

RECURSIVE ConcatAll(_)
ConcatAll(ss) == IF ss = <<>> THEN <<>> ELSE ss[1] \o ConcatAll(Tail(ss))

\* zip that pairs every row of l with the first of r
zip_first_right(l, r) ==
    [k \in 1..(IF Len(l) < Len(r) THEN Len(l) ELSE Len(r)) |-> <<l[k], r[1]>>]

\* zip that pairs the first of l with the last of r
zip_crossed(l, r) ==
    LET n == IF Len(l) < Len(r) THEN Len(l) ELSE Len(r)
    IN  [k \in 1..n |-> <<l[k], r[n + 1 - k]>>]

\* zip(l, r)
zip(l, r) ==
    [k \in 1..(IF Len(l) < Len(r) THEN Len(l) ELSE Len(r)) |-> <<l[k], r[k]>>]

\* rows i and j of t by (destination_port, source_port)
PortLess(t, i, j) ==
    IF t[i].destination_port # t[j].destination_port
    THEN StrLess(t[i].destination_port, t[j].destination_port)
    ELSE StrLess(t[i].source_port, t[j].source_port)

\* ggrp: the indices of the group's rows in t, in table order
pair_rows_one_per_peer(t, ggrp, peers) ==
    LET p0    == peers[1]
        p1    == peers[2]
        left  == SelectSeq(ggrp, LAMBDA i : t[i].destination_device = p0)
        right == SelectSeq(ggrp, LAMBDA i : t[i].destination_device = p1)
        less(i, j) == PortLess(t, i, j)
    IN  IF \E i \in Range(left) \cup Range(right) : t[i].lag_key # ""
        THEN LET lkeys == {t[i].lag_key : i \in Range(left)}
                 rkeys == {t[i].lag_key : i \in Range(right)}
                 keys  == SortNames(lkeys \cap rkeys)
                 of(k) ==
                     zip(sorted(SelectSeq(left, LAMBDA i : t[i].lag_key = k), less),
                         sorted(SelectSeq(right, LAMBDA i : t[i].lag_key = k), less))
             IN  ConcatAll([n \in 1..Len(keys) |-> of(keys[n])])
        ELSE LET lkeys == {auto_bundle_key(t[i]) : i \in Range(left)}
                 rkeys == {auto_bundle_key(t[i]) : i \in Range(right)}
                 keys  == sorted(SeqOfSet(lkeys \cap rkeys), KeyLess)
                 of(k) ==
                     zip(sorted(SelectSeq(left,
                                    LAMBDA i : auto_bundle_key(t[i]) = k), less),
                         sorted(SelectSeq(right,
                                    LAMBDA i : auto_bundle_key(t[i]) = k), less))
             IN  ConcatAll([n \in 1..Len(keys) |-> of(keys[n])])

-----------------------------------------------------------------------------
(* main(): the state of a run                                               *)

Ev(tag, why, g, unit, v) == [tag |-> tag, why |-> why, g |-> g, unit |-> unit, v |-> v]

NoUnit == <<0, 0>>

NoQuery == [po1 |-> {}, po2 |-> {}, brief1 |-> {}, brief2 |-> {},
            show1 |-> {}, show2 |-> {}]

NoGrp == [name |-> "", peers |-> <<>>, used |-> {}, queried |-> NoQuery,
          bundles |-> <<>>]

NoCur == [g |-> "", unit |-> NoUnit, pc_id |-> 0, dev1 |-> "", dev2 |-> "",
          cfg_po |-> <<>>, cfg_1 |-> <<>>, cfg_2 |-> <<>>]

NoHist == [gates |-> <<>>, allocs |-> <<>>, plans |-> <<>>]

\* devices = sorted(set(df["destination_device"]))
DevicesOf(t) == SortNames({t[i].destination_device : i \in 1..Len(t)})

\* the keys of need_per in the order the rows insert them
RECURSIVE DevOrder(_, _)
DevOrder(t, seen) ==
    IF t = <<>> THEN <<>>
    ELSE IF t[1].destination_device \in seen THEN DevOrder(Tail(t), seen)
    ELSE <<t[1].destination_device>>
         \o DevOrder(Tail(t), seen \cup {t[1].destination_device})

\* yes_df / no_df: the indices of the rows, in table order
YesRows(t) == SelectSeq(Indices(Len(t)), LAMBDA i : t[i].pc_required = "yes")
NoRows(t)  == SelectSeq(Indices(Len(t)), LAMBDA i : t[i].pc_required = "no")

\* ggrp of yes_df.groupby("vpc_group") for label g
GroupRows(t, g) == SelectSeq(YesRows(t), LAMBDA i : t[i].vpc_group = g)

\* peers that names the one device of a group twice
PeersOf_twice(t, g) ==
    LET p == SortNames({t[i].destination_device : i \in Range(GroupRows(t, g))})
    IN  IF Len(p) = 1 THEN <<p[1], p[1]>> ELSE p

\* peers = sorted(set(ggrp["destination_device"]))
PeersOf(t, g) == SortNames({t[i].destination_device : i \in Range(GroupRows(t, g))})

\* the device after send_config_set(lines): a channel interface shows up in
\* the summary and the vPC tables, a member interface in its channel
ApplyCfg(dv, lines) ==
    LET head == lines[1]
        vpcs == StmtsOf(lines, "vpc")
        cgs  == StmtsOf(lines, "channel-group mode active")
    IN  IF head.k = "interface port-channel"
        THEN [dv EXCEPT !.po = @ \cup {head.v[1]},
                        !.vpc_brief = @ \cup {vpcs[i].v[1] : i \in 1..Len(vpcs)},
                        !.vpc_show = @ \cup {vpcs[i].v[1] : i \in 1..Len(vpcs)}]
        ELSE IF cgs # <<>>
        THEN [dv EXCEPT !.cg = @ \cup {head.a[1]},
                        !.summ = @ \cup {head.a[1]},
                        !.po = @ \cup {cgs[1].v[1]}]
        ELSE dv

\* nx.run_cfg(lines) on device d, for unit of group g
RunCfg(d, lines, g, unit) ==
    /\ ~Raises(d, "config")
    /\ device' = [device EXCEPT ![d] = ApplyCfg(@, lines)]
    /\ sent' = Append(sent, [dev |-> d, lines |-> lines, g |-> g, unit |-> unit])

AllocIdle == [err |-> FALSE, id |-> 0, done |-> FALSE]

InitRun ==
    /\ pool = {} /\ closed = {}
    /\ pc = "connect"
    /\ todo = [devs |-> DevicesOf(df), groups |-> <<>>, rows |-> <<>>]
    /\ grp = NoGrp /\ cur = NoCur
    /\ out = <<>> /\ sent = <<>> /\ hist = NoHist
    /\ exc = ""

Init ==
    /\ df \in Tables
    /\ \E e \in Envs(df) :
          device = e.device /\ id_min = e.id_min /\ id_max = e.id_max
    /\ dry_run \in BOOLEAN
    /\ preview = [done |-> FALSE, plans |-> <<>>]
    /\ InitRun
    /\ a_in = [used |-> {}, lo |-> 0, hi |-> 0] /\ a_res = AllocIdle

FixedArgs == UNCHANGED <<df, id_min, id_max, dry_run, preview, a_in, a_res>>

Fixed == FixedArgs /\ UNCHANGED exc

\* an exception leaves the try block of main(): on to the finally clause
Raise(cmd) ==
    /\ exc' = cmd
    /\ pc' = "finally"
    /\ FixedArgs

-----------------------------------------------------------------------------
(* main(): connect, VLAN precheck, group labels                             *)

\* for dev in devices: pool.get(dev); backup_interfaces_single_file(...)
Connect ==
    /\ pc = "connect" /\ todo.devs # <<>>
    /\ ~Raises(Head(todo.devs), "connect")
    /\ pool' = pool \cup {Head(todo.devs)}
    /\ todo' = [todo EXCEPT !.devs = Tail(@)]
    /\ pc' = IF Tail(todo.devs) = <<>> THEN "precheck" ELSE "connect"
    /\ UNCHANGED <<device, closed, grp, cur, out, sent, hist>>
    /\ Fixed

\* nx.connect() raises in pool.get(dev): the device does not enter the pool
ConnectFail ==
    /\ pc = "connect" /\ todo.devs # <<>>
    /\ Raises(Head(todo.devs), "connect")
    /\ Raise("connect")
    /\ UNCHANGED <<device, pool, closed, todo, grp, cur, out, sent, hist>>

\* the devices of the precheck loop up to the first whose query raises
RECURSIVE Answering(_)
Answering(devs) ==
    IF devs = <<>> \/ Raises(Head(devs), "show vlan brief") THEN <<>>
    ELSE <<Head(devs)>> \o Answering(Tail(devs))

\* the [ERROR] lines of the precheck, one per device with missing VLANs
MissingEvents(t) ==
    LET need_per == required_vlans_per_device(t)
        devs == SelectSeq(Answering(DevOrder(t, {})),
                          LAMBDA d : MissingOn(d, need_per[d]) # {})
    IN  [i \in 1..Len(devs) |->
            Ev("ERROR", "VLANs missing", devs[i], NoUnit,
               SetToSortedSeq(MissingOn(devs[i], need_per[devs[i]])))]

VlanPrecheck ==
    /\ pc = "precheck"
    /\ Answering(DevOrder(df, {})) = DevOrder(df, {})
    /\ LET errs == MissingEvents(df)
       IN  IF errs # <<>>
           THEN /\ out' = out \o errs
                        \o <<Ev("ABORT", "create missing VLANs", "", NoUnit, <<>>)>>
                /\ pc' = "finally"
           ELSE /\ out' = Append(out, Ev("PASS", "VLAN precheck", "", NoUnit, <<>>))
                /\ pc' = "labels"
    /\ UNCHANGED <<device, pool, closed, todo, grp, cur, sent, hist>>
    /\ Fixed

\* get_existing_vlans raises for some device of the precheck loop
PrecheckFail ==
    /\ pc = "precheck"
    /\ Answering(DevOrder(df, {})) # DevOrder(df, {})
    /\ out' = out \o MissingEvents(df)
    /\ Raise("show vlan brief")
    /\ UNCHANGED <<device, pool, closed, todo, grp, cur, sent, hist>>

\* sorted group labels: the order of yes_df.groupby("vpc_group")
GroupLabels(t) == SortNames({t[i].vpc_group : i \in Range(YesRows(t))})

GroupLabelCheck ==
    /\ pc = "labels"
    /\ IF \E i \in Range(YesRows(df)) : df[i].vpc_group = ""
       THEN /\ out' = Append(out, Ev("ERROR", "vpc_group required", "", NoUnit, <<>>))
            /\ pc' = "finally"
            /\ todo' = todo
       ELSE /\ out' = out
            /\ pc' = "group"
            /\ todo' = [todo EXCEPT !.groups = GroupLabels(df)]
    /\ UNCHANGED <<device, pool, closed, grp, cur, sent, hist>>
    /\ Fixed

-----------------------------------------------------------------------------
(* main(): the group loop                                                   *)

\* what the six queries of a group answered
Queried(nx1, nx2) ==
    [po1 |-> get_used_portchannels(nx1), po2 |-> get_used_portchannels(nx2),
     brief1 |-> get_used_vpc_ids_brief(nx1),
     brief2 |-> get_used_vpc_ids_brief(nx2),
     show1 |-> get_used_vpc_ids_show_vpc(nx1),
     show2 |-> get_used_vpc_ids_show_vpc(nx2)]

\* the group loop left with break instead of continue
NextGroup_break ==
    /\ todo' = [todo EXCEPT !.groups = <<>>]
    /\ grp' = NoGrp
    /\ pc' = "group"

NextGroup ==
    /\ todo' = [todo EXCEPT !.groups = Tail(@)]
    /\ grp' = NoGrp
    /\ pc' = "group"

\* len(peers) != 2: the group is skipped
GroupSkipPeers ==
    /\ pc = "group" /\ todo.groups # <<>>
    /\ LET g == Head(todo.groups)
       IN  /\ Len(PeersOf(df, g)) # 2
           /\ out' = Append(out, Ev("ERROR", "not two devices", g, NoUnit, <<>>))
    /\ NextGroup
    /\ UNCHANGED <<device, pool, closed, cur, sent, hist>>
    /\ Fixed

\* "show vpc" raises on one of the two peers
HealthRaises(peers) ==
    Raises(peers[1], "show vpc") \/ Raises(peers[2], "show vpc")

\* vpc_healthy(nx1, nx2) raises
GroupFail ==
    /\ pc = "group" /\ todo.groups # <<>>
    /\ LET peers == PeersOf(df, Head(todo.groups))
       IN  Len(peers) = 2 /\ HealthRaises(peers)
    /\ Raise("show vpc")
    /\ UNCHANGED <<device, pool, closed, todo, grp, cur, out, sent, hist>>

\* vpc_healthy(nx1, nx2) is false: the group is skipped
GroupSkipHealth ==
    /\ pc = "group" /\ todo.groups # <<>>
    /\ LET g == Head(todo.groups)
           peers == PeersOf(df, g)
       IN  /\ Len(peers) = 2
           /\ ~HealthRaises(peers)
           /\ ~vpc_healthy(peers[1], peers[2])
           /\ out' = Append(out, Ev("ERROR", "vPC MISMATCH", g, NoUnit, <<>>))
    /\ NextGroup
    /\ UNCHANGED <<device, pool, closed, cur, sent, hist>>
    /\ Fixed

\* the peering is healthy but pair_rows_one_per_peer returns nothing
GroupNoBundles ==
    /\ pc = "group" /\ todo.groups # <<>>
    /\ LET g == Head(todo.groups)
           peers == PeersOf(df, g)
       IN  /\ Len(peers) = 2
           /\ ~HealthRaises(peers)
           /\ vpc_healthy(peers[1], peers[2])
           /\ pair_rows_one_per_peer(df, GroupRows(df, g), peers) = <<>>
           /\ out' = out \o << Ev("CHECK", "vPC OK", g, NoUnit, <<>>),
                               Ev("INFO", "no pairable rows", g, NoUnit, <<>>) >>
    /\ NextGroup
    /\ UNCHANGED <<device, pool, closed, cur, sent, hist>>
    /\ Fixed

\* the peering is healthy: query the used ids, pair the rows, enter the loop
GroupBegin ==
    /\ pc = "group" /\ todo.groups # <<>>
    /\ LET g == Head(todo.groups)
           peers == PeersOf(df, g)
       IN  /\ Len(peers) = 2
           /\ ~HealthRaises(peers)
           /\ vpc_healthy(peers[1], peers[2])
           /\ pair_rows_one_per_peer(df, GroupRows(df, g), peers) # <<>>
           /\ grp' = [name |-> g, peers |-> peers,
                      used |-> used_ids(peers[1], peers[2]),
                      queried |-> Queried(peers[1], peers[2]),
                      bundles |-> pair_rows_one_per_peer(df, GroupRows(df, g), peers)]
           /\ out' = Append(out, Ev("CHECK", "vPC OK", g, NoUnit, <<>>))
    /\ pc' = "bundle"
    /\ UNCHANGED <<device, pool, closed, todo, cur, sent, hist>>
    /\ Fixed

\* the group loop is over: build no_df
GroupsDone ==
    /\ pc = "group" /\ todo.groups = <<>>
    /\ todo' = [todo EXCEPT !.rows = NoRows(df)]
    /\ pc' = "single"
    /\ UNCHANGED <<device, pool, closed, grp, cur, out, sent, hist>>
    /\ Fixed

-----------------------------------------------------------------------------
(* main(): one bundle of the group                                          *)

\* the four safety prechecks of the bundle's two interfaces
GateFacts(nx1, iface1, nx2, iface2) ==
    [in1 |-> interface_is_in_pc(nx1, iface1),
     in2 |-> interface_is_in_pc(nx2, iface2),
     up1 |-> interface_link_up(nx1, iface1),
     up2 |-> interface_link_up(nx2, iface2)]

\* the prechecks switched off
bundle_blocked_never(f) == FALSE

\* the prechecks without the link test of the second interface
bundle_blocked_no_up2(f) == f.in1 \/ f.in2 \/ f.up1

\* some precheck says [SKIP]: the bundle is not touched
bundle_blocked(f) == f.in1 \/ f.in2 \/ f.up1 \/ f.up2

\* interface_link_up raises before the prechecks are through: the status
\* of iface1 is asked only when neither side is bonded, that of iface2 only
\* when iface1 is not connected
GateRaises(nx1, nx2, f) ==
    /\ ~f.in1 /\ ~f.in2
    /\ \/ Raises(nx1, "show interface status")
       \/ ~f.up1 /\ Raises(nx2, "show interface status")

\* the reason main() prints, the first check that fires
BlockedWhy(f) ==
    IF f.in1 \/ f.in2 THEN "already in Po" ELSE "link connected"

\* cfg_po, cfg_1, cfg_2 of a bundle, or the [SKIP] after the allocation
compose_bundle(left_row, right_row, pc_id) ==
    LET sw_type == lower(left_row.switchport_type)
        allowed == left_row.allowed_vlan
        native  == left_row.native_vlan
        mtu     == left_row.mtu_value
        iface1  == to_eth_canonical(left_row.destination_port)
        iface2  == to_eth_canonical(right_row.destination_port)
        desc1   == <<left_row.source_device, left_row.source_port>>
        desc2   == <<right_row.source_device, right_row.source_port>>
        desc_po == <<left_row.source_device, "LACP">>
        vl      == VlanList[allowed]
        hd_po   == <<Stmt("interface port-channel", <<>>, <<pc_id>>)>>
        hd_1    == <<Stmt("interface", <<iface1>>, <<>>)>>
        hd_2    == <<Stmt("interface", <<iface2>>, <<>>)>>
        none    == [ok |-> FALSE, why |-> "", sw_type |-> sw_type,
                    cfg_po |-> <<>>, cfg_1 |-> <<>>, cfg_2 |-> <<>>]
    IN  IF sw_type = "access"
        THEN IF vl = <<>>
             THEN [none EXCEPT !.why = "no valid access VLAN"]
             ELSE [ok |-> TRUE, why |-> "", sw_type |-> sw_type,
                   cfg_po |-> hd_po \o build_access_po(desc_po, vl[1], mtu, pc_id),
                   cfg_1 |-> hd_1 \o build_access_physical(desc1, vl[1], mtu, pc_id),
                   cfg_2 |-> hd_2 \o build_access_physical(desc2, vl[1], mtu, pc_id)]
        ELSE IF sw_type = "trunk"
        THEN [ok |-> TRUE, why |-> "", sw_type |-> sw_type,
              cfg_po |-> hd_po \o build_trunk_po(desc_po, vl,
                                       native_vlan_of(native), mtu, pc_id),
              cfg_1 |-> hd_1 \o build_trunk_physical(desc1, vl,
                                       native_vlan_of(native), mtu, pc_id),
              cfg_2 |-> hd_2 \o build_trunk_physical(desc2, vl,
                                       native_vlan_of(native), mtu, pc_id)]
        ELSE [none EXCEPT !.why = "unknown switchport_type"]

\* the loop variables of the bundle at the head of grp.bundles
B_unit  == Head(grp.bundles)
B_left  == df[B_unit[1]]
B_right == df[B_unit[2]]
B_facts == GateFacts(grp.peers[1], to_eth_canonical(B_left.destination_port),
                     grp.peers[2], to_eth_canonical(B_right.destination_port))
B_pick  == pick_next_id(grp.used, id_min, id_max)
B_cfg   == compose_bundle(B_left, B_right, B_pick.id)

GateRec(g, unit, f) == [g |-> g, unit |-> unit, facts |-> f]

AllocRec == [g |-> grp.name, unit |-> B_unit, id |-> B_pick.id,
             peers |-> grp.peers, queried |-> grp.queried,
             lo |-> id_min, hi |-> id_max]

InBundleLoop == pc = "bundle" /\ grp.bundles # <<>>

\* the MTU is a number and the prechecks of the bundle answered
BundleGated ==
    /\ InBundleLoop
    /\ isdigit(B_left.mtu_value)
    /\ ~GateRaises(grp.peers[1], grp.peers[2], B_facts)

\* continue: on to the next bundle of the group
Continue == grp' = [grp EXCEPT !.bundles = Tail(@)]

\* the bundles of the group are done
BundleLoopEnd ==
    /\ pc = "bundle" /\ grp.bundles = <<>>
    /\ NextGroup
    /\ UNCHANGED <<device, pool, closed, cur, out, sent, hist>>
    /\ Fixed

BundleSkipMtu ==
    /\ InBundleLoop
    /\ ~isdigit(B_left.mtu_value)
    /\ out' = Append(out, Ev("SKIP", "invalid mtu", grp.name, B_unit, <<>>))
    /\ Continue
    /\ UNCHANGED <<device, pool, closed, pc, todo, cur, sent, hist>>
    /\ Fixed

BundleSkipGate ==
    /\ BundleGated
    /\ bundle_blocked(B_facts)
    /\ out' = Append(out, Ev("SKIP", BlockedWhy(B_facts), grp.name, B_unit, <<>>))
    /\ hist' = [hist EXCEPT !.gates = Append(@, GateRec(grp.name, B_unit, B_facts))]
    /\ Continue
    /\ UNCHANGED <<device, pool, closed, pc, todo, cur, sent>>
    /\ Fixed

\* interface_link_up raises for one of the two interfaces
BundleFail ==
    /\ InBundleLoop
    /\ isdigit(B_left.mtu_value)
    /\ GateRaises(grp.peers[1], grp.peers[2], B_facts)
    /\ Raise("show interface status")
    /\ UNCHANGED <<device, pool, closed, todo, grp, cur, out, sent, hist>>

\* pick_next_id raises: break out of the bundle loop
BundleExhausted ==
    /\ BundleGated
    /\ ~bundle_blocked(B_facts)
    /\ B_pick.err
    /\ out' = Append(out, Ev("ERROR", "no free id", grp.name, B_unit, <<>>))
    /\ hist' = [hist EXCEPT !.gates = Append(@, GateRec(grp.name, B_unit, B_facts))]
    /\ NextGroup
    /\ UNCHANGED <<device, pool, closed, cur, sent>>
    /\ Fixed

\* an id is allocated, then the row turns out not to be composable
BundleSkipCompose ==
    /\ BundleGated
    /\ ~bundle_blocked(B_facts)
    /\ ~B_pick.err
    /\ ~B_cfg.ok
    /\ out' = Append(out, Ev("SKIP", B_cfg.why, grp.name, B_unit, <<>>))
    /\ hist' = [hist EXCEPT !.gates = Append(@, GateRec(grp.name, B_unit, B_facts)),
                            !.allocs = Append(@, AllocRec)]
    /\ grp' = [grp EXCEPT !.bundles = Tail(@), !.used = @ \cup {B_pick.id}]
    /\ UNCHANGED <<device, pool, closed, pc, todo, cur, sent>>
    /\ Fixed

PlanRec ==
    [g |-> grp.name, unit |-> B_unit, sw_type |-> B_cfg.sw_type,
     pc_id |-> B_pick.id, dev1 |-> grp.peers[1], dev2 |-> grp.peers[2],
     cfg_po |-> B_cfg.cfg_po, cfg_1 |-> B_cfg.cfg_1, cfg_2 |-> B_cfg.cfg_2]

\* [PLAN]: the bundle is composed; printed (dry run) or submitted next
BundlePlan ==
    /\ BundleGated
    /\ ~bundle_blocked(B_facts)
    /\ ~B_pick.err
    /\ B_cfg.ok
    /\ hist' = [hist EXCEPT !.gates = Append(@, GateRec(grp.name, B_unit, B_facts)),
                            !.allocs = Append(@, AllocRec),
                            !.plans = Append(@, PlanRec)]
    /\ grp' = [grp EXCEPT !.bundles = Tail(@), !.used = @ \cup {B_pick.id}]
    /\ IF dry_run
       THEN /\ out' = out \o
                  << Ev("PLAN", B_cfg.sw_type, grp.name, B_unit, <<B_pick.id>>),
                     Ev("CONFIG", grp.peers[1], grp.name, B_unit, <<B_pick.id>>),
                     Ev("CONFIG", grp.peers[2], grp.name, B_unit, <<B_pick.id>>) >>
            /\ pc' = pc /\ cur' = cur
       ELSE /\ out' = Append(out,
                  Ev("PLAN", B_cfg.sw_type, grp.name, B_unit, <<B_pick.id>>))
            /\ pc' = "cfg_po_1"
            /\ cur' = [g |-> grp.name, unit |-> B_unit, pc_id |-> B_pick.id,
                       dev1 |-> grp.peers[1], dev2 |-> grp.peers[2],
                       cfg_po |-> B_cfg.cfg_po, cfg_1 |-> B_cfg.cfg_1,
                       cfg_2 |-> B_cfg.cfg_2]
    /\ UNCHANGED <<device, pool, closed, todo, sent>>
    /\ Fixed

\* nx1.run_cfg(cfg_po)
RunCfgPo1 ==
    /\ pc = "cfg_po_1"
    /\ RunCfg(cur.dev1, cur.cfg_po, cur.g, cur.unit)
    /\ pc' = "cfg_po_2"
    /\ UNCHANGED <<pool, closed, todo, grp, cur, out, hist>>
    /\ Fixed

\* the second peer is given its member interface before the channel interface
RunCfgPo2_member_first ==
    /\ pc = "cfg_po_2"
    /\ RunCfg(cur.dev2, cur.cfg_2, cur.g, cur.unit)
    /\ pc' = "cfg_1"
    /\ UNCHANGED <<pool, closed, todo, grp, cur, out, hist>>
    /\ Fixed

\* nx2.run_cfg(cfg_po)
RunCfgPo2 ==
    /\ pc = "cfg_po_2"
    /\ RunCfg(cur.dev2, cur.cfg_po, cur.g, cur.unit)
    /\ pc' = "cfg_1"
    /\ UNCHANGED <<pool, closed, todo, grp, cur, out, hist>>
    /\ Fixed

\* nx1.run_cfg(cfg_1)
RunCfg1 ==
    /\ pc = "cfg_1"
    /\ RunCfg(cur.dev1, cur.cfg_1, cur.g, cur.unit)
    /\ pc' = "cfg_2"
    /\ UNCHANGED <<pool, closed, todo, grp, cur, out, hist>>
    /\ Fixed

\* nx2.run_cfg(cfg_2); [OK]
RunCfg2 ==
    /\ pc = "cfg_2"
    /\ RunCfg(cur.dev2, cur.cfg_2, cur.g, cur.unit)
    /\ out' = Append(out, Ev("OK", "configured", cur.g, cur.unit, <<cur.pc_id>>))
    /\ cur' = NoCur
    /\ pc' = "bundle"
    /\ UNCHANGED <<pool, closed, todo, grp, hist>>
    /\ Fixed

\* the device of the run_cfg call main() is at
CfgDev ==
    IF pc \in {"cfg_po_2", "cfg_2"} THEN cur.dev2 ELSE cur.dev1

\* send_config_set raises: nothing of this call is recorded as submitted
RunCfgFail ==
    /\ pc \in {"cfg_po_1", "cfg_po_2", "cfg_1", "cfg_2", "cfg_single"}
    /\ Raises(CfgDev, "config")
    /\ Raise("config")
    /\ UNCHANGED <<device, pool, closed, todo, grp, cur, out, sent, hist>>

-----------------------------------------------------------------------------
(* main(): the single interfaces (port-channel_required = no)               *)

single_blocked(inpc, up) == inpc \/ up

\* cfg of a single interface, or the [SKIP]
compose_single(r) ==
    LET sw      == lower(r.switchport_type)
        iface   == to_eth_canonical(r.destination_port)
        desc    == <<r.source_device, r.source_port>>
        lst     == VlanList[r.allowed_vlan]
        hd      == <<Stmt("interface", <<iface>>, <<>>)>>
    IN  IF sw = "access"
        THEN IF lst = <<>>
             THEN [ok |-> FALSE, why |-> "no valid access VLAN", sw_type |-> sw,
                   cfg |-> <<>>]
             ELSE [ok |-> TRUE, why |-> "", sw_type |-> sw,
                   cfg |-> hd \o build_access_physical_no_pc(desc, lst[1],
                                                              r.mtu_value)]
        ELSE IF sw = "trunk"
        THEN [ok |-> TRUE, why |-> "", sw_type |-> sw,
              cfg |-> hd \o build_trunk_physical_no_pc(desc, lst,
                                native_vlan_of(r.native_vlan), r.mtu_value)]
        ELSE [ok |-> FALSE, why |-> "unknown switchport_type", sw_type |-> sw,
              cfg |-> <<>>]

\* the loop variables of the row at the head of todo.rows
S_unit  == <<Head(todo.rows), 0>>
S_row   == df[Head(todo.rows)]
S_dev   == S_row.destination_device
S_facts == [in1 |-> interface_is_in_pc(S_dev, to_eth_canonical(S_row.destination_port)),
            in2 |-> FALSE,
            up1 |-> interface_link_up(S_dev, to_eth_canonical(S_row.destination_port)),
            up2 |-> FALSE]
S_cfg   == compose_single(S_row)

InSingleLoop == pc = "single" /\ todo.rows # <<>>

\* the MTU is a number and the prechecks of the row answered
SingleGated ==
    /\ InSingleLoop
    /\ isdigit(S_row.mtu_value)
    /\ ~GateRaises(S_dev, S_dev, S_facts)

\* interface_link_up raises for the interface of the row
SingleFail ==
    /\ InSingleLoop
    /\ isdigit(S_row.mtu_value)
    /\ GateRaises(S_dev, S_dev, S_facts)
    /\ Raise("show interface status")
    /\ UNCHANGED <<device, pool, closed, todo, grp, cur, out, sent, hist>>

NextRow == todo' = [todo EXCEPT !.rows = Tail(@)]

SingleSkipMtu ==
    /\ InSingleLoop
    /\ ~isdigit(S_row.mtu_value)
    /\ out' = Append(out, Ev("SKIP", "invalid mtu", "", S_unit, <<>>))
    /\ NextRow
    /\ UNCHANGED <<device, pool, closed, pc, grp, cur, sent, hist>>
    /\ Fixed

SingleSkipGate ==
    /\ SingleGated
    /\ single_blocked(S_facts.in1, S_facts.up1)
    /\ out' = Append(out, Ev("SKIP", BlockedWhy(S_facts), "", S_unit, <<>>))
    /\ hist' = [hist EXCEPT !.gates = Append(@, GateRec("", S_unit, S_facts))]
    /\ NextRow
    /\ UNCHANGED <<device, pool, closed, pc, grp, cur, sent>>
    /\ Fixed

SingleSkipCompose ==
    /\ SingleGated
    /\ ~single_blocked(S_facts.in1, S_facts.up1)
    /\ ~S_cfg.ok
    /\ out' = Append(out, Ev("SKIP", S_cfg.why, "", S_unit, <<>>))
    /\ hist' = [hist EXCEPT !.gates = Append(@, GateRec("", S_unit, S_facts))]
    /\ NextRow
    /\ UNCHANGED <<device, pool, closed, pc, grp, cur, sent>>
    /\ Fixed

SinglePlanRec ==
    [g |-> "", unit |-> S_unit, sw_type |-> S_cfg.sw_type, pc_id |-> 0,
     dev1 |-> S_dev, dev2 |-> "", cfg_po |-> <<>>, cfg_1 |-> S_cfg.cfg,
     cfg_2 |-> <<>>]

\* [PLAN] (NO-PC): printed (dry run) or submitted next
SinglePlan ==
    /\ SingleGated
    /\ ~single_blocked(S_facts.in1, S_facts.up1)
    /\ S_cfg.ok
    /\ hist' = [hist EXCEPT !.gates = Append(@, GateRec("", S_unit, S_facts)),
                            !.plans = Append(@, SinglePlanRec)]
    /\ NextRow
    /\ IF dry_run
       THEN /\ out' = out \o << Ev("PLAN", S_cfg.sw_type, "", S_unit, <<>>),
                                Ev("CONFIG", S_dev, "", S_unit, <<>>) >>
            /\ pc' = pc /\ cur' = cur
       ELSE /\ out' = Append(out, Ev("PLAN", S_cfg.sw_type, "", S_unit, <<>>))
            /\ pc' = "cfg_single"
            /\ cur' = [NoCur EXCEPT !.unit = S_unit, !.dev1 = S_dev,
                                    !.cfg_1 = S_cfg.cfg]
    /\ UNCHANGED <<device, pool, closed, grp, sent>>
    /\ Fixed

\* nx.run_cfg(cfg); [OK]
RunCfgSingle ==
    /\ pc = "cfg_single"
    /\ RunCfg(cur.dev1, cur.cfg_1, cur.g, cur.unit)
    /\ out' = Append(out, Ev("OK", "configured", "", cur.unit, <<>>))
    /\ cur' = NoCur
    /\ pc' = "single"
    /\ UNCHANGED <<pool, closed, todo, grp, hist>>
    /\ Fixed

\* [DONE] All rows processed.
SinglesDone ==
    /\ pc = "single" /\ todo.rows = <<>>
    /\ out' = Append(out, Ev("DONE", "all rows processed", "", NoUnit, <<>>))
    /\ pc' = "finally"
    /\ UNCHANGED <<device, pool, closed, todo, grp, cur, sent, hist>>
    /\ Fixed

\* finally: pool.close_all()
\* close_all reached only when no exception is on its way out
CloseAll_no_finally ==
    /\ pc = "finally"
    /\ closed' = IF exc = "" THEN pool ELSE {}
    /\ pc' = "exit"
    /\ UNCHANGED <<device, pool, todo, grp, cur, out, sent, hist>>
    /\ Fixed

CloseAll ==
    /\ pc = "finally"
    /\ closed' = pool
    /\ pc' = "exit"
    /\ UNCHANGED <<device, pool, todo, grp, cur, out, sent, hist>>
    /\ Fixed

\* the status the interpreter exits with: 1 when an exception left main(),
\* 0 when main() returned
ExitStatus == IF exc # "" THEN 1 ELSE 0

\* the operator runs the script again without --dry-run after a preview
Rerun ==
    /\ pc = "exit" /\ dry_run
    /\ dry_run' = FALSE
    /\ preview' = [done |-> TRUE, plans |-> hist.plans]
    /\ pool' = {} /\ closed' = {}
    /\ pc' = "connect"
    /\ todo' = [devs |-> DevicesOf(df), groups |-> <<>>, rows |-> <<>>]
    /\ grp' = NoGrp /\ cur' = NoCur
    /\ out' = <<>> /\ sent' = <<>> /\ hist' = NoHist
    /\ exc' = ""
    /\ UNCHANGED <<df, id_min, id_max, device, a_in, a_res>>

Next ==
    \/ Connect \/ VlanPrecheck \/ GroupLabelCheck
    \/ ConnectFail \/ PrecheckFail \/ GroupFail \/ BundleFail
    \/ RunCfgFail \/ SingleFail
    \/ GroupSkipPeers \/ GroupSkipHealth \/ GroupNoBundles \/ GroupBegin
    \/ GroupsDone
    \/ BundleLoopEnd \/ BundleSkipMtu \/ BundleSkipGate \/ BundleExhausted
    \/ BundleSkipCompose \/ BundlePlan
    \/ RunCfgPo1 \/ RunCfgPo2 \/ RunCfg1 \/ RunCfg2
    \/ SingleSkipMtu \/ SingleSkipGate \/ SingleSkipCompose \/ SinglePlan
    \/ RunCfgSingle \/ SinglesDone
    \/ CloseAll \/ Rerun

Spec == Init /\ [][Next]_vars

-----------------------------------------------------------------------------
(* pick_next_id on its own: every range and used set within the bounds      *)

IdSpace == 0..(MaxId + 1)

InitAlloc ==
    /\ a_in \in [used : SUBSET IdSpace, lo : IdSpace, hi : IdSpace]
    /\ a_res = AllocIdle
    /\ df = <<>> /\ id_min = ID_MIN_DEFAULT /\ id_max = MaxId
    /\ dry_run = TRUE /\ device = AllBase
    /\ preview = [done |-> FALSE, plans |-> <<>>]
    /\ pool = {} /\ closed = {} /\ pc = "idle"
    /\ todo = [devs |-> <<>>, groups |-> <<>>, rows |-> <<>>]
    /\ grp = NoGrp /\ cur = NoCur
    /\ out = <<>> /\ sent = <<>> /\ hist = NoHist
    /\ exc = ""

Pick ==
    /\ ~a_res.done
    /\ a_res' = LET r == pick_next_id(a_in.used, a_in.lo, a_in.hi)
                IN  [err |-> r.err, id |-> r.id, done |-> TRUE]
    /\ UNCHANGED <<df, id_min, id_max, dry_run, device, pool, closed, pc,
                   todo, grp, cur, out, sent, hist, preview, exc, a_in>>

NextAlloc == Pick

SpecAlloc == InitAlloc /\ [][NextAlloc]_vars

-----------------------------------------------------------------------------
(* pair_rows_one_per_peer on its own: the rows of one group in every order  *)

\* rows of group g1: two same-key rows per peer whose ports sort differently
\* as text and as numbers, a row that ties with the first, two lag_key rows
PairPool == <<
    Row("srv1", "eth0", "trunk", T_10_20, T_10, "SW-A", "Eth1/2", M_9216, "yes", "g1", ""),
    Row("srv1", "eth1", "trunk", T_10_20, T_10, "SW-A", "Eth1/10", M_9216, "yes", "g1", ""),
    Row("srv1", "eth0", "trunk", T_10_20, T_10, "SW-B", "Eth1/3", M_9216, "yes", "g1", ""),
    Row("srv1", "eth1", "trunk", T_10_20, T_10, "SW-B", "Eth1/4", M_9216, "yes", "g1", ""),
    Row("srv1", "eth0", "Trunk", T_10_20, T_10, "SW-A", "Eth1/2", M_9216, "yes", "g1", ""),
    Row("srv2", "eth0", "access", T_10, T_none, "SW-A", "Eth1/5", M_1500, "yes", "g1", "k1"),
    Row("srv2", "eth1", "trunk", T_10_20, T_10, "SW-B", "Eth1/6", M_9216, "yes", "g1", "k1") >>

\* how many rows the group has, at most
MaxPairRows == 4

\* the group's rows in pool order, for every choice that names two devices
PairTables ==
    {t \in {SelectSeq(PairPool, LAMBDA r : r \in S) :
               S \in {V \in SUBSET Range(PairPool) :
                         Cardinality(V) \in 2..MaxPairRows}} :
        Len(PeersOf(t, "g1")) = 2}

\* the table with its rows in the order q
Permute(t, q) == [k \in 1..Len(t) |-> t[q[k]]]

\* the bundles of group g1 of table t, as pairs of row indices
PairsOf(t) == pair_rows_one_per_peer(t, GroupRows(t, "g1"), PeersOf(t, "g1"))

\* the same bundles as pairs of rows (lr.to_dict(), rr.to_dict())
RowPairs(t) ==
    LET b == PairsOf(t) IN [k \in 1..Len(b) |-> <<t[b[k][1]], t[b[k][2]]>>]

PairIdle == [done |-> FALSE, bundles |-> <<>>, pairs |-> <<>>, reordered |-> <<>>]

InitPair ==
    /\ a_in \in UNION {[rows : {t}, perm : Permutations(1..Len(t))] :
                         t \in PairTables}
    /\ df = a_in.rows
    /\ a_res = PairIdle
    /\ id_min = ID_MIN_DEFAULT /\ id_max = MaxId
    /\ dry_run = TRUE /\ device = AllBase
    /\ preview = [done |-> FALSE, plans |-> <<>>]
    /\ pool = {} /\ closed = {} /\ pc = "idle"
    /\ todo = [devs |-> <<>>, groups |-> <<>>, rows |-> <<>>]
    /\ grp = NoGrp /\ cur = NoCur
    /\ out = <<>> /\ sent = <<>> /\ hist = NoHist
    /\ exc = ""

\* pair the rows as loaded, and the same rows loaded in the order a_in.perm
PairRows ==
    /\ ~a_res.done
    /\ a_res' = [done |-> TRUE, bundles |-> PairsOf(df), pairs |-> RowPairs(df),
                 reordered |-> RowPairs(Permute(df, a_in.perm))]
    /\ UNCHANGED <<df, id_min, id_max, dry_run, device, pool, closed, pc,
                   todo, grp, cur, out, sent, hist, preview, exc, a_in>>

NextPair == PairRows

SpecPair == InitPair /\ [][NextPair]_vars

-----------------------------------------------------------------------------
(* Vocabulary of the properties                                             *)

Allocs == Range(hist.allocs)
Plans  == Range(hist.plans)
Gates  == Range(hist.gates)
Sent   == Range(sent)
Outs   == Range(out)

Peered(x) == x.g # ""

NativeStmts(lines) == StmtsOf(lines, "switchport trunk native vlan")

\* every statement sequence of a plan
CfgsOf(p) == {c \in {p.cfg_po, p.cfg_1, p.cfg_2} : c # <<>>}

\* the row whose values the plan was composed from
SourceRow(p) == df[p.unit[1]]

\* an interface is channel-bonded: by its configuration or by the summary
Bonded(d, iface) == iface \in device[d].cg \cup device[d].summ

AllBondedAndUp ==
    \A i \in 1..Len(df) :
        /\ Bonded(df[i].destination_device, IfaceOf(df[i]))
        /\ IfaceOf(df[i]) \in device[df[i].destination_device].up

-----------------------------------------------------------------------------
(* C1 *)

\* C1: within one run, two allocations for bundles on the same device pair
\* never return the same identifier, also across groups and also when the
\* devices report unchanged used-id sets (preview).
C1_DistinctIdsPerPair ==
    \A i, j \in 1..Len(hist.allocs) :
        (i # j /\ hist.allocs[i].peers = hist.allocs[j].peers)
            => hist.allocs[i].id # hist.allocs[j].id

-----------------------------------------------------------------------------
(* C2 *)

\* C2: whatever is submitted for a bundle or a single row was gated: at its
\* gate check no member interface was channel-bonded or link-up; a unit with
\* a failed member check has nothing submitted for it on any device.
C2_SubmittedOnlyIfGated ==
    /\ \A s \in Sent :
          \E gt \in Gates :
              /\ gt.g = s.g /\ gt.unit = s.unit
              /\ ~gt.facts.in1 /\ ~gt.facts.in2
              /\ ~gt.facts.up1 /\ ~gt.facts.up2
    /\ \A gt \in Gates :
          (gt.facts.in1 \/ gt.facts.in2 \/ gt.facts.up1 \/ gt.facts.up2)
              => ~\E s \in Sent : s.g = gt.g /\ s.unit = gt.unit

\* a run that skipped one unit at the gate and submitted a bundle
C2_Witness ==
    /\ \E s \in Sent : Peered(s)
    /\ \E gt \in Gates : gt.facts.up2 \/ gt.facts.in2 \/ gt.facts.up1

-----------------------------------------------------------------------------
(* C3 *)

\* the VLANs a row references: the access VLAN, or the trunk allowed set
\* and the trunk native VLAN
VlanRefs(r) ==
    LET al == VlanList[r.allowed_vlan]
        nv == VlanList[r.native_vlan]
    IN  CASE lower(r.switchport_type) = "access" ->
                 IF al = <<>> THEN {} ELSE {al[1]}
          [] lower(r.switchport_type) = "trunk" ->
                 Range(al) \cup (IF nv = <<>> THEN {} ELSE {nv[1]})
          [] OTHER -> {}

\* the VLANs that rows of device d reference and the device does not have
MissingVlans(d) ==
    {v \in UNION {VlanRefs(df[i]) :
                     i \in {j \in 1..Len(df) : df[j].destination_device = d}} :
        v \notin device[d].vlans_text}

\* the devices on which some row references a VLAN the device does not have
DevicesMissingVlans == {d \in Devices : MissingVlans(d) # {}}

\* C3: when a row references a VLAN its destination device lacks, the run
\* never submits configuration and never enters the group or
\* single-interface processing, whatever else happens; it ends having
\* reported every such device with exactly its missing VLANs, unless a
\* transport error (a failed connect, a failed "show vlan brief") ended the
\* run before the precheck could report.
C3_MissingVlanStopsRun ==
    DevicesMissingVlans # {} =>
        /\ sent = <<>>
        /\ pc \in {"connect", "precheck", "finally", "exit"}
        /\ hist = NoHist
        /\ exc \in {"", "connect", "show vlan brief"}
        /\ (pc \in {"finally", "exit"} /\ exc = "") =>
              /\ \A d \in DevicesMissingVlans :
                    \E e \in Outs : /\ e.tag = "ERROR" /\ e.why = "VLANs missing"
                                    /\ e.g = d
                                    /\ Range(e.v) = MissingVlans(d)
              /\ \E e \in Outs : e.tag = "ABORT"
              /\ ~\E e \in Outs : e.tag \in {"PASS", "CHECK", "PLAN", "DONE"}

\* a run that ended on the precheck with only a trunk's later VLAN missing
C3_Witness ==
    /\ pc = "exit" /\ exc = ""
    /\ DevicesMissingVlans # {}
    /\ \E e \in Outs : e.tag = "ABORT"
    /\ \E i \in 1..Len(df) : df[i].pc_required = "yes"

-----------------------------------------------------------------------------
(* C4 *)

\* healthy as the claim defines it, on what the two devices report
PeeringHealthy(peers) ==
    /\ device[peers[1]].domain # <<>>
    /\ device[peers[1]].domain = device[peers[2]].domain
    /\ device[peers[1]].peer_ok /\ device[peers[2]].peer_ok
    /\ device[peers[1]].keepalive_ok /\ device[peers[2]].keepalive_ok

\* C4: a group passes its check exactly if the peering is healthy, and ids
\* are allocated and configuration is planned or submitted for its bundles
\* only then.
C4_OnlyHealthyGroups ==
    /\ \A a \in Allocs : PeeringHealthy(a.peers)
    /\ \A p \in Plans : Peered(p) => PeeringHealthy(<<p.dev1, p.dev2>>)
    /\ \A s \in Sent : Peered(s) => PeeringHealthy(PeersOf(df, s.g))
    /\ pc \in {"bundle", "cfg_po_1", "cfg_po_2", "cfg_1", "cfg_2"}
          => PeeringHealthy(grp.peers)
    /\ \A e \in Outs :
          /\ (e.tag = "CHECK") => PeeringHealthy(PeersOf(df, e.g))
          /\ (e.tag = "ERROR" /\ e.why = "vPC MISMATCH")
                => ~PeeringHealthy(PeersOf(df, e.g))

\* a group with pairable rows was skipped for its unhealthy peering
C4_Witness ==
    /\ pc = "exit"
    /\ \E e \in Outs :
          /\ e.tag = "ERROR" /\ e.why = "vPC MISMATCH"
          /\ pair_rows_one_per_peer(df, GroupRows(df, e.g), PeersOf(df, e.g)) # <<>>
    /\ hist.allocs = <<>> /\ sent = <<>>

-----------------------------------------------------------------------------
(* C5 *)

FreeIds == {i \in a_in.lo..a_in.hi : i \notin a_in.used}

\* C5: pick_next_id returns the smallest id of [lo, hi] that is not used, and
\* fails exactly if every id of [lo, hi] is used (the empty range included).
C5_SmallestFree ==
    a_res.done =>
        /\ a_res.err <=> FreeIds = {}
        /\ ~a_res.err => /\ a_res.id \in FreeIds
                         /\ \A j \in FreeIds : a_res.id <= j

\* the allocator passed over used ids and returned the last id of the range
C5_Witness ==
    /\ a_res.done /\ ~a_res.err
    /\ a_res.id = a_in.hi /\ a_res.id > a_in.lo + 1

-----------------------------------------------------------------------------
(* C6 *)

\* C6: an allocated id lies in [id_min, id_max] and was reported used by
\* neither peer when the group queried them: not as a port-channel, not in
\* show vpc brief, not in the vPC-id table of show vpc.
C6_AllocatedIdFree ==
    \A a \in Allocs :
        /\ a.id \in a.lo..a.hi
        /\ a.id \notin a.queried.po1 \cup a.queried.po2
        /\ a.id \notin a.queried.brief1 \cup a.queried.brief2
        /\ a.id \notin a.queried.show1 \cup a.queried.show2

\* an allocation that had to pass over ids used on the second peer only
C6_Witness ==
    \E a \in Allocs :
        /\ a.id > a.lo
        /\ a.queried.po1 = {} /\ a.queried.show1 = {} /\ a.queried.brief1 = {}
        /\ a.queried.show2 # {}

-----------------------------------------------------------------------------
(* C7 *)

ChannelGroupStmts(lines) == StmtsOf(lines, "channel-group mode active")

\* C7: in a composed peered bundle the channel interface, the vpc statement
\* and the channel-group statement of both members carry the one allocated
\* id, and both peers are sent the same channel-interface statements.
C7_OneIdPerBundle ==
    /\ \A p \in Plans :
          Peered(p) =>
              /\ p.cfg_po[1] = Stmt("interface port-channel", <<>>, <<p.pc_id>>)
              /\ StmtsOf(p.cfg_po, "vpc") = <<Stmt("vpc", <<>>, <<p.pc_id>>)>>
              /\ ChannelGroupStmts(p.cfg_1)
                    = <<Stmt("channel-group mode active", <<>>, <<p.pc_id>>)>>
              /\ ChannelGroupStmts(p.cfg_2)
                    = <<Stmt("channel-group mode active", <<>>, <<p.pc_id>>)>>
              /\ \E a \in Allocs :
                    a.g = p.g /\ a.unit = p.unit /\ a.id = p.pc_id
    /\ \A e \in Outs :
          (e.tag = "OK" /\ Peered(e)) =>
              \E p \in Plans :
                  /\ p.g = e.g /\ p.unit = e.unit
                  /\ \E s1, s2 \in Sent :
                        /\ s1.dev = p.dev1 /\ s2.dev = p.dev2
                        /\ s1.lines = p.cfg_po /\ s2.lines = p.cfg_po
    /\ \A s1, s2 \in Sent :
          (/\ s1.g = s2.g /\ s1.unit = s2.unit
           /\ s1.lines[1].k = "interface port-channel"
           /\ s2.lines[1].k = "interface port-channel")
              => s1.lines = s2.lines

\* a trunk bundle and an access bundle were both configured on the peers
C7_Witness ==
    /\ \E e \in Outs : e.tag = "OK" /\ Peered(e)
    /\ \E p \in Plans : Peered(p) /\ p.sw_type = "trunk" /\ p.pc_id > id_min
    /\ \E p \in Plans : Peered(p) /\ p.sw_type = "access"

-----------------------------------------------------------------------------
(* C8 *)

PreviewPlans == Range(preview.plans)

\* C8: a preview run submits nothing, and the apply run started from the
\* same table, range and device state gives every bundle the id the preview
\* gave it.
C8_PreviewMatchesApply ==
    /\ dry_run => sent = <<>>
    /\ (preview.done /\ pc = "exit") =>
          \A p \in Plans :
              Peered(p) =>
                  \E q \in PreviewPlans :
                      q.g = p.g /\ q.unit = p.unit /\ q.pc_id = p.pc_id

-----------------------------------------------------------------------------
(* C9 *)

HasOut(tag) == \E e \in Outs : e.tag = tag

Skipped(g, unit) == \E e \in Outs : e.tag = "SKIP" /\ e.g = g /\ e.unit = unit

\* every bundle of every paired group and every single row was skipped
AllUnitsSkipped ==
    /\ \A i \in Range(NoRows(df)) : Skipped("", <<i, 0>>)
    /\ \A g \in Range(GroupLabels(df)) :
          Len(PeersOf(df, g)) = 2 =>
              \A b \in Range(pair_rows_one_per_peer(df, GroupRows(df, g),
                                                    PeersOf(df, g))) :
                  Skipped(g, b)

NothingTouched ==
    /\ sent = <<>> /\ hist.allocs = <<>> /\ hist.plans = <<>>
    /\ \A e \in Outs : e.unit # NoUnit => e.tag = "SKIP"

\* C9 as stated: with every named interface bonded and link-up the run
\* submits and allocates nothing, skips every bundle and row, and completes.
C9_IdempotentAndCompletes ==
    AllBondedAndUp =>
        /\ NothingTouched
        /\ pc = "exit" => (HasOut("DONE") /\ AllUnitsSkipped)

\* the run was stopped by the VLAN precheck or by the group-label check
StoppedOnInput ==
    \/ HasOut("ABORT")
    \/ \E e \in Outs : e.tag = "ERROR" /\ e.why = "vpc_group required"

\* C9 amended: with every named interface bonded and link-up the run submits
\* and allocates nothing; unless the VLAN precheck or the group-label check
\* stops it, it completes with every bundle and row skipped.
C9_IdempotentUnlessStopped ==
    AllBondedAndUp =>
        /\ NothingTouched
        /\ pc = "exit" => (HasOut("DONE") \/ StoppedOnInput)
        /\ HasOut("DONE") => AllUnitsSkipped

\* a completed run that skipped a bundle and a single row, all bonded and up
C9_Witness ==
    /\ AllBondedAndUp
    /\ pc = "exit" /\ HasOut("DONE")
    /\ \E e \in Outs : e.tag = "SKIP" /\ Peered(e)
    /\ \E e \in Outs : e.tag = "SKIP" /\ ~Peered(e)

-----------------------------------------------------------------------------
(* C10 *)

NativeInputEmpty(p) == VlanList[SourceRow(p).native_vlan] = <<>>

\* C10: access compositions carry no native-VLAN statement, and a trunk
\* composition whose native-VLAN input is empty carries none either.
C10_NativeOmittedWhenEmpty ==
    \A p \in Plans :
        \A c \in CfgsOf(p) :
            /\ p.sw_type = "access" => NativeStmts(c) = <<>>
            /\ (p.sw_type = "trunk" /\ NativeInputEmpty(p))
                  => NativeStmts(c) = <<>>

-----------------------------------------------------------------------------
(* C11 *)

\* the two rows state the same mode, allowed VLANs, native VLAN and MTU
RowsAgree(l, r) ==
    /\ lower(l.switchport_type) = lower(r.switchport_type)
    /\ Range(VlanList[l.allowed_vlan]) = Range(VlanList[r.allowed_vlan])
    /\ VlanList[l.native_vlan] = VlanList[r.native_vlan]
    /\ l.mtu_value = r.mtu_value

\* C11: the two rows of every bundle the pairing returns, by lag_key or by
\* the attribute key, agree on switchport mode, allowed-VLAN set, native
\* VLAN and MTU, for the bundles still to be processed and for the planned.
C11_BundleRowsAgree ==
    /\ \A k \in 1..Len(grp.bundles) :
          RowsAgree(df[grp.bundles[k][1]], df[grp.bundles[k][2]])
    /\ \A p \in Plans :
          Peered(p) => RowsAgree(df[p.unit[1]], df[p.unit[2]])

-----------------------------------------------------------------------------
(* C12 *)

\* the statements that name VLANs
VlanStmts == {"switchport access vlan", "switchport trunk allowed vlan",
              "switchport trunk native vlan"}

\* C12: every VLAN id in a statement submitted to a device for a bundle
\* (access VLAN, trunk allowed set, native VLAN) exists on that device.
C12_SentVlansExist ==
    \A s \in Sent :
        Peered(s) =>
            \A i \in 1..Len(s.lines) :
                s.lines[i].k \in VlanStmts
                    => Range(s.lines[i].v) \subseteq get_existing_vlans(s.dev)

-----------------------------------------------------------------------------
(* C13 *)

\* the rows of group g that the pairing puts in no bundle
UnpairedRows(g) ==
    LET bundles == pair_rows_one_per_peer(df, GroupRows(df, g), PeersOf(df, g))
    IN  {i \in Range(GroupRows(df, g)) :
            \A k \in 1..Len(bundles) : i \notin Range(bundles[k])}

\* C13: when the run has completed, every row of a two-peer group whose
\* rows were paired and that is in no bundle has a line of output: one that
\* names the row, or the group's notice that no rows could be paired.
C13_UnpairedRowsReported ==
    (pc = "exit" /\ HasOut("DONE")) =>
        \A g \in Range(GroupLabels(df)) :
            (Len(PeersOf(df, g)) = 2
                    /\ \E e \in Outs : e.tag = "CHECK" /\ e.g = g) =>
                \A i \in UnpairedRows(g) :
                    \E e \in Outs :
                        /\ e.g = g
                        /\ i \in Range(e.unit) \/ e.tag = "INFO"

-----------------------------------------------------------------------------
(* C14 *)

\* the group of table t is paired by lag_key
ByLagKey(t) == \E i \in 1..Len(t) : t[i].lag_key # ""

\* the pairing key of row i of t
PairKey(t, i) ==
    IF ByLagKey(t) THEN <<t[i].lag_key>> ELSE auto_bundle_key(t[i])

\* the rows of the side and key of row i
SameSideKey(t, i) ==
    {j \in 1..Len(t) : /\ t[j].destination_device = t[i].destination_device
                        /\ PairKey(t, j) = PairKey(t, i)}

\* how many rows of its side and key come before row i by
\* (destination_port, source_port), compared as Python compares strings
SideRank(t, i) == Cardinality({j \in SameSideKey(t, i) : PortLess(t, j, i)})

\* no two rows of one side and key have the same two ports
NoTies(t) ==
    \A i \in 1..Len(t) : \A j \in SameSideKey(t, i) :
        (j # i) => (PortLess(t, i, j) \/ PortLess(t, j, i))

\* every bundle joins a row of the first peer with the row of the second
\* peer that has the same key and the same rank, and no such pair is missing
RankWise(t, b) ==
    LET peers == PeersOf(t, "g1")
    IN  /\ \A k \in 1..Len(b) :
              /\ t[b[k][1]].destination_device = peers[1]
              /\ t[b[k][2]].destination_device = peers[2]
              /\ PairKey(t, b[k][1]) = PairKey(t, b[k][2])
              /\ SideRank(t, b[k][1]) = SideRank(t, b[k][2])
        /\ \A i, j \in 1..Len(t) :
              (/\ t[i].destination_device = peers[1]
               /\ t[j].destination_device = peers[2]
               /\ PairKey(t, i) = PairKey(t, j)
               /\ SideRank(t, i) = SideRank(t, j))
                  => \E k \in 1..Len(b) : b[k] = <<i, j>>

\* C14: the pairing joins, per key, the i-th row of the first peer with the
\* i-th row of the second peer in ascending (destination port, source port)
\* order, never rows of different ranks or keys, and loading the same rows
\* in another order gives the same bundles.
C14_PairingOrderStable ==
    a_res.done =>
        /\ RankWise(df, a_res.bundles)
        /\ a_res.reordered = a_res.pairs

\* C14 amended: the same, for tables in which no two rows of one side and
\* key have the same (destination port, source port); the ports compare as
\* Python strings, so "Eth1/10" comes before "Eth1/2".
C14_PairingOrderStableNoTies ==
    (a_res.done /\ NoTies(df)) =>
        /\ RankWise(df, a_res.bundles)
        /\ a_res.reordered = a_res.pairs

\* two bundles of one key, the Eth1/10 row paired ahead of the Eth1/2 row,
\* compared with the rows loaded in another order
C14_Witness ==
    /\ a_res.done /\ NoTies(df)
    /\ Len(a_res.pairs) = 2
    /\ a_res.pairs[1][1].destination_port = "Eth1/10"
    /\ a_res.pairs[2][1].destination_port = "Eth1/2"
    /\ PairKey(df, 1) = PairKey(df, 2)
    /\ Permute(df, a_in.perm) # df

-----------------------------------------------------------------------------
(* C15 *)

\* the group ended on a group-level failure
GroupFailed(g) ==
    \E e \in Outs :
        /\ e.g = g
        /\ \/ e.tag = "ERROR" /\ e.why \in {"not two devices", "vPC MISMATCH",
                                             "no free id"}
           \/ e.tag = "INFO"

\* the group loop reached group g and gave it its outcome
GroupProcessed(g) ==
    \/ GroupFailed(g)
    \/ /\ \E e \in Outs : e.tag = "CHECK" /\ e.g = g
       /\ \A b \in Range(pair_rows_one_per_peer(df, GroupRows(df, g),
                                                   PeersOf(df, g))) :
             \E e \in Outs : /\ e.g = g /\ e.unit = b
                              /\ e.tag \in {"SKIP", "PLAN"}

\* the single-interface loop gave row i its outcome
RowProcessed(i) ==
    \E e \in Outs : e.g = "" /\ e.unit = <<i, 0>> /\ e.tag \in {"SKIP", "PLAN"}

\* C15: a group that fails as a whole (not on two devices, unhealthy
\* peering, no pairable rows, ids exhausted) ends only itself: the run, when
\* no transport error ends it, prints [DONE] after having given every
\* other group and every no-channel row its outcome; what was submitted
\* for the group before the ids ran out is still on the devices and
\* reported [OK].
C15_GroupFailureEndsOnlyGroup ==
    /\ (pc = "exit" /\ exc = ""
            /\ \E g \in Range(GroupLabels(df)) : GroupFailed(g)) =>
          /\ HasOut("DONE")
          /\ \A g \in Range(GroupLabels(df)) : GroupProcessed(g)
          /\ \A i \in Range(NoRows(df)) : RowProcessed(i)
    /\ \A s \in Sent :
          /\ s.lines[1].k = "interface port-channel"
                => s.lines[1].v[1] \in device[s.dev].po
          /\ StmtsOf(s.lines, "channel-group mode active") # <<>>
                => s.lines[1].a[1] \in device[s.dev].cg
    /\ \A e \in Outs :
          (e.tag = "ERROR" /\ e.why = "no free id") =>
              \A p \in Plans :
                  (p.g = e.g /\ ~dry_run /\ pc \in {"finally", "exit"}
                        /\ exc = "") =>
                      \E o \in Outs : o.tag = "OK" /\ o.g = p.g /\ o.unit = p.unit

\* a run in which the first group failed for its device count and the next
\* group was configured on both peers
C15_Witness ==
    /\ pc = "exit" /\ HasOut("DONE")
    /\ \E e \in Outs : e.tag = "ERROR" /\ e.why = "not two devices" /\ e.g = "g1"
    /\ \E e \in Outs : e.tag = "OK" /\ e.g = "g2"
    /\ \E s \in Sent : s.g = "g2" /\ s.dev = "SW-B"

-----------------------------------------------------------------------------
(* C16 *)

\* the MTU cell is a positive integer
MtuPositive(m) == isdigit(m) /\ int(m) > 0

\* the fields of row r are valid: positive MTU, and an access VLAN that
\* resolves (access) or a non-empty allowed set (trunk)
FieldsValid(r) ==
    /\ MtuPositive(r.mtu_value)
    /\ lower(r.switchport_type) \in {"access", "trunk"}
          => VlanList[r.allowed_vlan] # <<>>

\* C16: a bundle or single row is composed (planned) and submitted only if
\* its MTU is a positive integer and its access VLAN resolves (access) or
\* its allowed-VLAN set is non-empty (trunk).
C16_ComposedOnlyIfValid ==
    /\ \A p \in Plans : FieldsValid(SourceRow(p))
    /\ \A s \in Sent : FieldsValid(df[s.unit[1]])

-----------------------------------------------------------------------------
(* C17 *)

\* the record belongs to a row that requests no channel
NoChannel(x) == df[x.unit[1]].pc_required = "no"

\* the statements that create a channel, join one or give it a vPC identity
ChannelStmts == {"interface port-channel", "channel-group mode active", "vpc"}

\* one sequence for the physical interface of row i, free of channel
\* statements
PhysicalOnly(lines, i) ==
    /\ lines[1] = Stmt("interface", <<IfaceOf(df[i])>>, <<>>)
    /\ \A n \in 2..Len(lines) : lines[n].k \notin ChannelStmts \cup {"interface"}

\* C17: for a row that requests no channel the run previews or submits one
\* sequence, for the row's own physical interface on the row's own device,
\* without channel interface, channel membership or vpc statement, and no
\* identifier is allocated for it.
C17_NoChannelRowsPhysicalOnly ==
    /\ \A p \in Plans :
          NoChannel(p) =>
              /\ p.cfg_po = <<>> /\ p.cfg_2 = <<>> /\ p.pc_id = 0
              /\ p.dev1 = df[p.unit[1]].destination_device
              /\ PhysicalOnly(p.cfg_1, p.unit[1])
    /\ \A n \in 1..Len(sent) :
          NoChannel(sent[n]) =>
              /\ sent[n].dev = df[sent[n].unit[1]].destination_device
              /\ PhysicalOnly(sent[n].lines, sent[n].unit[1])
              /\ \A m \in 1..Len(sent) : sent[m].unit = sent[n].unit => m = n
    /\ \A a \in Allocs : ~NoChannel(a)
    /\ \A p \in Plans : Peered(p) => ~NoChannel(p)

\* an apply run that configured a no-channel trunk interface
C17_Witness ==
    /\ pc = "exit" /\ HasOut("DONE")
    /\ \E s \in Sent :
          /\ NoChannel(s)
          /\ StmtsOf(s.lines, "switchport mode trunk") # <<>>
          /\ \E e \in Outs : e.tag = "OK" /\ e.unit = s.unit

-----------------------------------------------------------------------------
(* C18 *)

\* the run met a fatal condition: missing VLANs, a channel row without a
\* group label, or a transport failure
FatalCondition ==
    \/ HasOut("ABORT")
    \/ \E e \in Outs : e.tag = "ERROR" /\ e.why = "vpc_group required"
    \/ exc # ""

\* C18: a run that met a fatal condition exits with a non-zero status, a
\* run that completed exits with zero.
C18_ExitStatus ==
    pc = "exit" =>
        /\ FatalCondition => ExitStatus # 0
        /\ HasOut("DONE") => ExitStatus = 0

-----------------------------------------------------------------------------
(* C19 *)

\* C19: when a run has ended, however it ended, the sessions closed are
\* exactly the sessions opened (a device whose connect failed has none);
\* once a transport error was raised the run only closes its sessions:
\* nothing more is submitted and no device changes.
C19_SessionsClosedOnEveryPath ==
    /\ [](pc = "exit" => closed = pool)
    /\ [](closed \subseteq pool /\ \A d \in pool : ~Raises(d, "connect"))
    /\ [](exc # "" => pc \in {"finally", "exit"})
    /\ [][exc # "" => (sent' = sent /\ device' = device)]_vars

\* a run ended by a failed run_cfg after the first peer was configured, both
\* sessions closed
C19_Witness ==
    /\ pc = "exit" /\ exc = "config"
    /\ sent # <<>>
    /\ Cardinality(pool) = 2 /\ closed = pool

-----------------------------------------------------------------------------
(* C20 *)

\* the labelled channel-required groups whose rows all name one device
OneDeviceGroups ==
    {g \in Range(GroupLabels(df)) \ {""} :
        Cardinality({df[i].destination_device : i \in Range(GroupRows(df, g))}) = 1}

-----------------------------------------------------------------------------
(* C21 *)

\* C21: an identifier is allocated only for a bundle that passed every check:
\* every allocation belongs to a composed bundle, no bundle with an
\* allocation is reported skipped, and the ids of the bundles a group
\* composed are the smallest ids that were free for it, without a gap.
C21_NoIdForSkippedBundle ==
    /\ \A a \in Allocs :
          /\ \E p \in Plans : p.g = a.g /\ p.unit = a.unit /\ p.pc_id = a.id
          /\ ~Skipped(a.g, a.unit)
    /\ \A p \in Plans :
          Peered(p) =>
              \A a \in Allocs :
                  (a.g = p.g /\ a.unit = p.unit) =>
                      \A i \in a.lo..(p.pc_id - 1) :
                          \/ i \in a.queried.po1 \cup a.queried.po2
                                  \cup a.queried.brief1 \cup a.queried.brief2
                                  \cup a.queried.show1 \cup a.queried.show2
                          \/ \E q \in Plans : q.g = p.g /\ q.pc_id = i

-----------------------------------------------------------------------------
(* C22 *)

\* what main() submits for a composed bundle, in the order of lines 476-477
Submissions(p) ==
    << [dev |-> p.dev1, lines |-> p.cfg_po, g |-> p.g, unit |-> p.unit],
       [dev |-> p.dev2, lines |-> p.cfg_po, g |-> p.g, unit |-> p.unit],
       [dev |-> p.dev1, lines |-> p.cfg_1, g |-> p.g, unit |-> p.unit],
       [dev |-> p.dev2, lines |-> p.cfg_2, g |-> p.g, unit |-> p.unit] >>

\* the submissions made so far for the bundle of plan p
BundleSent(p) == SelectSeq(sent, LAMBDA s : s.g = p.g /\ s.unit = p.unit)

IsPrefix(s, t) == Len(s) <= Len(t) /\ s = SubSeq(t, 1, Len(s))

\* the statements of s are in effect on the device they were submitted to
InPlace(s) == device[s.dev] = ApplyCfg(device[s.dev], s.lines)

Submitting == pc \in {"cfg_po_1", "cfg_po_2", "cfg_1", "cfg_2"}

\* C22: in apply mode the id of a bundle is in the used set of its group from
\* before its first submission on; the submissions of a bundle are, in this
\* order, the channel interface to the first peer, the channel interface to
\* the second peer, the member interface to the first, the member interface
\* to the second; and when a submission of the bundle fails, what was
\* submitted before stays in effect on the devices, the bundle is not
\* reported configured and the failure leaves main() as an exception.
C22_ApplyOrderNoRollback ==
    /\ Submitting =>
          /\ ~dry_run
          /\ cur.pc_id \in grp.used
          /\ pc = "cfg_po_1" => \A s \in Sent : ~(s.g = cur.g /\ s.unit = cur.unit)
    /\ \A p \in Plans :
          Peered(p) =>
              /\ IsPrefix(BundleSent(p), Submissions(p))
              /\ (p.g = grp.name /\ BundleSent(p) # <<>>) => p.pc_id \in grp.used
    /\ \A s \in Sent : InPlace(s)
    /\ (exc = "config" /\ Peered(cur)) =>
          /\ pc \in {"finally", "exit"}
          /\ ExitStatus = 1
          /\ \A e \in Outs : ~(e.tag = "OK" /\ e.g = cur.g /\ e.unit = cur.unit)
          /\ \A p \in Plans :
                (p.g = cur.g /\ p.unit = cur.unit) =>
                    /\ Len(BundleSent(p)) < 4
                    /\ sent # <<>> => sent[Len(sent)] \in Range(BundleSent(p))

\* the submission to the second peer failed after the channel interface was
\* created on the first: it is still there, and only there
C22_Witness ==
    /\ pc = "exit" /\ exc = "config" /\ Peered(cur)
    /\ \E p \in Plans :
          /\ p.g = cur.g /\ p.unit = cur.unit
          /\ BundleSent(p) = SubSeq(Submissions(p), 1, 1)
          /\ p.pc_id \in device[p.dev1].po
          /\ p.pc_id \notin device[p.dev2].po
          /\ p.pc_id \in grp.used

-----------------------------------------------------------------------------
(* C23 *)

\* the rows of table t on device d whose pairing key is that of row i
SideRows(t, d, i) ==
    {j \in 1..Len(t) : t[j].destination_device = d /\ PairKey(t, j) = PairKey(t, i)}

\* the bundles of b whose two rows have the pairing key of row i
KeyBundles(t, b, i) ==
    {k \in 1..Len(b) : /\ PairKey(t, b[k][1]) = PairKey(t, i)
                        /\ PairKey(t, b[k][2]) = PairKey(t, i)}

Smaller(m, n) == IF m < n THEN m ELSE n

\* C23: of the bundles the resolver returns for a two-peer group, each has
\* its first row on the first peer and its second row on the second peer,
\* no row is in two bundles, and for the pairing key of any row the bundles
\* of that key are as many as the side with fewer rows of that key has rows.
C23_OneRowPerPeerPerBundle ==
    a_res.done =>
        LET b     == a_res.bundles
            peers == PeersOf(df, "g1")
        IN  /\ Len(peers) = 2
            /\ \A k \in 1..Len(b) :
                  /\ df[b[k][1]].destination_device = peers[1]
                  /\ df[b[k][2]].destination_device = peers[2]
            /\ \A k, m \in 1..Len(b) :
                  (k # m) => {b[k][1], b[k][2]} \cap {b[m][1], b[m][2]} = {}
            /\ \A i \in 1..Len(df) :
                  Cardinality(KeyBundles(df, b, i)) =
                      Smaller(Cardinality(SideRows(df, peers[1], i)),
                              Cardinality(SideRows(df, peers[2], i)))

\* three rows of one key on the first peer and one on the second: one bundle
C23_Witness ==
    /\ a_res.done
    /\ Len(a_res.bundles) = 1
    /\ LET b1    == a_res.bundles[1]
           peers == PeersOf(df, "g1")
       IN  /\ Cardinality(SideRows(df, peers[1], b1[1])) = 3
           /\ Cardinality(SideRows(df, peers[2], b1[1])) = 1
           /\ df[b1[2]].destination_device = peers[2]

====
